---------------------------- MODULE Spec2Model ----------------------------
(***************************************************************************)
(* A model of slowdaq: the netstring Decoder (netstring.py), the Stream    *)
(* and Server reactor (stream.py), the Snapshot directory (snapshot.py)    *)
(* and the Aggregator role (pb2.py).                                       *)
(*                                                                         *)
(* Byte strings are sequences of one-character strings.  Python indices    *)
(* are kept 0-based as in the source; At and Slice translate them.         *)
(***************************************************************************)
EXTENDS Integers, Sequences, FiniteSets, TLC

VARIABLES
    dec,        \* codec: the Decoder that is fed chunk by chunk
    input,      \* codec: [garbage, payloads, bytes] the byte stream to feed
    fed,        \* codec: number of bytes of input.bytes fed so far
    split,      \* codec: some feed() call ended before the end of the stream
    streams,    \* Server.streams: a list of Stream ids
    connecting, \* Server.connecting: a list of Stream ids
    st,         \* the Stream objects created so far, by id
    net,        \* the socket of each Stream, as the kernel and the peer hold it
    reach,      \* the remote locations that accept a connection now
    hist,       \* history: what was queued, written, received; reconnects
    exc,        \* the exception that escaped from a call of the program, or ""
    snap0,      \* Snapshot.entries of one Snapshot: a list of Entry
    snap1,      \* Snapshot.entries of another Snapshot
    diff,       \* the SnapshotDiff computed from the two, or NoDiff
    agg,        \* the Aggregator: [entries, systime, pulses, data, exc]
    clock,      \* utcnow(), in minutes
    agghist,    \* history: snapshots sent, publishers heard, last call
    pc,         \* aggregate.py: the statement of the main loop that runs next
    logfile,    \* the file Aggregator.dump() appends to: the frames written
    loophist,   \* history of the main loop: snapshots sent, pulses, data
    publisher,  \* the Publisher: [name, inbox, t_last_pulse]
    subscriber, \* the Subscriber: [aggregator, snapshots, new_snapshot, data,
                \* index, initial_connect]
    rolehist    \* history: the pulses queued and delivered, what arrived

codecVars == <<dec, input, fed, split>>

serverVars == <<streams, connecting, st, net, reach, hist, exc>>

snapVars == <<snap0, snap1, diff>>

aggVars == <<agg, clock, agghist>>

loopVars == <<pc, logfile, loophist>>

pubsubVars == <<publisher, subscriber, rolehist>>

roleVars == <<pc, logfile, loophist, publisher, subscriber, rolehist>>

vars == <<dec, input, fed, split, streams, connecting, st, net, reach, hist, exc,
          snap0, snap1, diff, agg, clock, agghist, pc, logfile, loophist,
          publisher, subscriber, rolehist>>

-----------------------------------------------------------------------------
(* Bounds of the model *)

MaxPayloadBytes == 3   \* total payload bytes of the short frames of an input
MaxFrames == 2         \* number of short frames in one input
MaxGarbage == 2        \* bytes of noise before a frame
MaxChunk == 2          \* smallest chunk sizes a feed may get
MaxStreams == 3        \* Stream objects created in one run
MaxQueued == 2         \* queue() calls of the program in one run
MaxPeerFrames == 2     \* frames the peers send in one run
MaxRoom == 2           \* free bytes of a nearly full socket send buffer
MaxCongest == 1        \* times a send buffer fills up in one run
MaxConnections == 2    \* add_connection() calls of the program in one run
MaxEntries == 3        \* entries of one Snapshot
MaxSystime == 1        \* latest systime of an Entry given to a Snapshot
MaxClock == 4          \* minutes an Aggregator runs
MaxBatch == 2          \* messages in one batch given to handle_recv
MaxRecv == 2           \* batches an Aggregator handles in one run
MaxAccept == 1         \* connections an Aggregator accepts in one run
SendBuffer == 8192     \* free bytes of an empty socket send buffer

-----------------------------------------------------------------------------
(* Python values *)

None == -1

Digits == <<"0", "1", "2", "3", "4", "5", "6", "7", "8", "9">>

IsDigit(c) == \E i \in 1..10 : Digits[i] = c

DigitVal(c) == (CHOOSE i \in 1..10 : Digits[i] = c) - 1

\* str(n) for n >= 0
RECURSIVE str(_)
str(n) == IF n < 10 THEN <<Digits[n + 1]>>
          ELSE str(n \div 10) \o <<Digits[(n % 10) + 1]>>

\* int(s) for a string of digits
RECURSIVE int(_)
int(s) == IF Len(s) = 0 THEN 0
          ELSE 10 * int(SubSeq(s, 1, Len(s) - 1)) + DigitVal(s[Len(s)])

\* s[i], s[a:b] and del s[:b] with Python's 0-based indices
At(s, i) == s[i + 1]

Slice(s, a, b) == SubSeq(s, a + 1, b)

DelPrefix(s, b) == SubSeq(s, b + 1, Len(s))

Min(a, b) == IF a < b THEN a ELSE b

Max(a, b) == IF a > b THEN a ELSE b

RECURSIVE Concat(_)
Concat(ss) == IF Len(ss) = 0 THEN <<>> ELSE ss[1] \o Concat(Tail(ss))

IsPrefix(p, s) == Len(p) <= Len(s) /\ SubSeq(s, 1, Len(p)) = p

-----------------------------------------------------------------------------
(* netstring.py: Decoder *)

max_size_digits == 9

\* An element of Decoder.msg: a payload (a string) or a negative integer,
\* the count of nonconforming bytes.
Payload(p) == [isint |-> FALSE, n |-> 0, data |-> p]

Bad(n) == [isint |-> TRUE, n |-> n, data |-> <<>>]

DecoderInit == [buf |-> <<>>, start |-> None, end |-> None,
                prefix_len |-> None, msg |-> <<>>]

\* start_pattern '([0-9]{1,9})(.*?):' with DOTALL matches at 0-based
\* position i of s with a group 1 of k digits
PatternAt(s, i, k) ==
    /\ k \in 1..max_size_digits
    /\ i + k <= Len(s)
    /\ \A d \in i..(i + k - 1) : IsDigit(At(s, d))
    /\ \E j \in (i + k)..(Len(s) - 1) : At(s, j) = ":"

\* start_pattern.search(s): the leftmost match, group 1 greedy.
\* [found, start1, len1, val1]: m != None, m.start(1), len(m.group(1)),
\* int(m.group(1))
start_pattern_search(s) ==
    LET starts == {i \in 0..(Len(s) - 1) : \E k \in 1..max_size_digits : PatternAt(s, i, k)}
    IN  IF starts = {} THEN [found |-> FALSE, start1 |-> 0, len1 |-> 0, val1 |-> 0]
        ELSE LET i == CHOOSE x \in starts : \A y \in starts : x <= y
                 k == CHOOSE x \in 1..max_size_digits :
                        /\ PatternAt(s, i, x)
                        /\ \A y \in 1..max_size_digits : PatternAt(s, i, y) => y <= x
             IN  [found |-> TRUE, start1 |-> i, len1 |-> k,
                  val1 |-> int(Slice(s, i, i + k))]

\* mutant: the payload is taken to start at the colon
RECURSIVE seek_start_at_colon(_, _)
seek_start_at_colon(d, e) ==
    LET end == Min(Len(d.buf), e + max_size_digits + 1)
        m == start_pattern_search(Slice(d.buf, 0, end))
    IN  IF m.found
        THEN [d |-> [d EXCEPT !.start = m.start1 + m.len1,
                              !.end = m.start1 + m.len1 + m.val1,
                              !.prefix_len = m.len1 + 1],
              isNone |-> FALSE, ret |-> 0 - m.start1]
        ELSE IF end = Len(d.buf)
             THEN [d |-> d, isNone |-> TRUE, ret |-> 0]
             ELSE seek_start_at_colon(d, end)

\* Decoder._seek_start, entered with the local variable end = e.
\* [d, ret]: the decoder afterwards and the return value (None or -m.start(1))
RECURSIVE seek_start_loop(_, _)
seek_start_loop(d, e) ==
    LET end == Min(Len(d.buf), e + max_size_digits + 1)
        m == start_pattern_search(Slice(d.buf, 0, end))
    IN  IF m.found
        THEN [d |-> [d EXCEPT !.start = m.start1 + m.len1 + 1,
                              !.end = m.start1 + m.len1 + 1 + m.val1,
                              !.prefix_len = m.len1 + 1],
              isNone |-> FALSE, ret |-> 0 - m.start1]
        ELSE IF end = Len(d.buf)
             THEN [d |-> d, isNone |-> TRUE, ret |-> 0]
             ELSE seek_start_loop(d, end)

seek_start(d) == seek_start_loop(d, 0)

\* Decoder._seek_end: [d, isNone, ret] where ret is an element of msg
seek_end(d) ==
    IF Len(d.buf) <= d.end
    THEN [d |-> d, isNone |-> TRUE, ret |-> Bad(0)]
    ELSE LET cleared == [d EXCEPT !.buf = DelPrefix(d.buf, d.end + 1),
                                  !.start = None, !.end = None,
                                  !.prefix_len = None]
         IN  IF At(d.buf, d.end) = ","
             THEN [d |-> cleared, isNone |-> FALSE,
                   ret |-> Payload(Slice(d.buf, d.start, d.end))]
             ELSE [d |-> cleared, isNone |-> FALSE,
                   ret |-> Bad(0 - (d.end - d.start) - d.prefix_len)]

\* mutant: the bytes before the prefix are not reported
next_msg_silent(d) ==
    LET s  == IF d.start = None THEN seek_start(d)
              ELSE [d |-> d, isNone |-> TRUE, ret |-> 0]
        d1 == s.d
    IN  IF d1.end # None
        THEN LET e == seek_end(d1)
             IN  IF e.isNone THEN [d |-> e.d, isNone |-> TRUE]
                 ELSE [d |-> [e.d EXCEPT !.msg = Append(@, e.ret)],
                       isNone |-> FALSE]
        ELSE [d |-> d1, isNone |-> TRUE]

\* Decoder._next_msg: [d, isNone] where isNone says the return value is None
next_msg(d) ==
    LET s  == IF d.start = None THEN seek_start(d)
              ELSE [d |-> d, isNone |-> TRUE, ret |-> 0]
        d1 == IF d.start = None /\ ~s.isNone /\ s.ret # 0
              THEN [s.d EXCEPT !.msg = Append(@, Bad(s.ret))]
              ELSE s.d
    IN  IF d1.end # None
        THEN LET e == seek_end(d1)
             IN  IF e.isNone THEN [d |-> e.d, isNone |-> TRUE]
                 ELSE [d |-> [e.d EXCEPT !.msg = Append(@, e.ret)],
                       isNone |-> FALSE]
        ELSE [d |-> d1, isNone |-> TRUE]

\* the while loop of Decoder.feed
RECURSIVE feed_loop(_)
feed_loop(d) ==
    LET r == next_msg(d)
    IN  IF r.isNone THEN r.d ELSE feed_loop(r.d)

\* mutant: the chunk replaces the buffer instead of being appended to it
feed_replaces(d, s) == feed_loop([d EXCEPT !.buf = s])

\* Decoder.feed(s)
feed(d, s) == feed_loop([d EXCEPT !.buf = @ \o s])

-----------------------------------------------------------------------------
(* stream.py: Stream.queue *)

SegmentThreshold == 4096

\* the segments Stream.queue(data) appends to outbox and to tcpbox
queue_segments(data) ==
    LET prefix == str(Len(data)) \o <<":">>
        size == Len(prefix) + Len(data) + 1
    IN  IF size > SegmentThreshold
        THEN <<prefix, data, <<",">>>>
        ELSE <<prefix \o data \o <<",">>>>

\* the frame of a payload: the bytes Stream.queue hands to the socket layer
Frame(data) == Concat(queue_segments(data))

-----------------------------------------------------------------------------
(* stream.py: Stream.  The operators below act on a world w, the record of
   the program's streams, lists and sockets; an exception that escapes sets
   w.exc and everything after it in the call is skipped. *)

RecvSize == 4096

sendall_retries == 4

NoLocation == <<"None", None>>

\* Stream.__init__
NewStream ==
    [type |-> "None", status |-> "None", sock |-> FALSE, errno |-> "None",
     host_location |-> NoLocation, remote_location |-> NoLocation,
     tcpbox |-> <<>>, outbox |-> <<>>, inbox |-> DecoderInit]

\* a socket just created by connect() or returned by accept(): nothing
\* received, nothing written, room bytes free in the send buffer
NewSocket(room) ==
    [rx |-> <<>>, flight |-> <<>>, peer |-> "open", room |-> room,
     wire |-> <<>>, backlog |-> <<>>, port |-> 0, drain |-> <<>>,
     early |-> <<>>]

Raise(w, e) == [w EXCEPT !.exc = e]

\* list.remove(x): the list without the first occurrence of x
ListRemove(l, x) ==
    LET i == CHOOSE k \in 1..Len(l) : l[k] = x /\ \A j \in 1..(k - 1) : l[j] # x
    IN  SubSeq(l, 1, i - 1) \o SubSeq(l, i + 1, Len(l))

InList(l, x) == \E k \in 1..Len(l) : l[k] = x

\* a new Stream object, with its socket and its history, gets the next id
Alloc(w, stream, socket) ==
    [w EXCEPT !.st = Append(@, stream),
              !.net = Append(@, socket),
              !.hist.queued = Append(@, <<>>),
              !.hist.short = Append(@, FALSE),
              !.hist.sent = Append(@, <<>>),
              !.hist.recv = Append(@, <<>>),
              !.hist.wrote = Append(@, 0),
              !.hist.again = Append(@, FALSE),
              !.hist.nshort = Append(@, 0)]

\* Stream.queue(data) on Stream id
stream_queue(w, id, data) ==
    [w EXCEPT !.st[id].outbox = @ \o queue_segments(data),
              !.st[id].tcpbox = @ \o queue_segments(data),
              !.hist.queued[id] = Append(@, data)]

\* Stream.connect(addr, port); loc = NoLocation stands for connect()
\* mutant: connect() succeeds whether the peer accepts connections or not
stream_connect_always(w, id, loc) ==
    LET remote == IF loc # NoLocation THEN loc ELSE w.st[id].remote_location
    IN  [w EXCEPT !.st[id].type = "connect",
                  !.st[id].remote_location = remote,
                  !.st[id].status = "connected",
                  !.st[id].sock = TRUE,
                  !.net[id] = NewSocket(SendBuffer),
                  !.hist.again[id] = @ \/ w.st[id].status = "closed"]

stream_connect(w, id, loc) ==
    LET remote == IF loc # NoLocation THEN loc ELSE w.st[id].remote_location
        w1 == [w EXCEPT !.st[id].type = "connect",
                        !.st[id].remote_location = remote]
    IN  IF remote \in w.reach
        THEN [w1 EXCEPT !.st[id].status = "connected",
                        !.st[id].sock = TRUE,
                        !.net[id] = NewSocket(SendBuffer),
                        !.hist.again[id] = @ \/ w.st[id].status = "closed"]
        ELSE [w1 EXCEPT !.st[id].errno = "ECONNREFUSED",
                        !.st[id].status = "closed"]

\* gethostbyname(gethostname())
HostAddr == "H"

\* Stream.listen: self.host_location; loc = NoLocation stands for listen()
listen_location(loc) == IF loc[1] = "None" THEN <<HostAddr, 0>> ELSE loc

\* Stream.listen(addr, port).  bind() to port 0 has the kernel choose the
\* port the socket is bound to: ephemeral
stream_listen(w, id, loc, ephemeral) ==
    [w EXCEPT !.st[id].type = "listen",
              !.st[id].host_location = listen_location(loc),
              !.st[id].sock = TRUE,
              !.st[id].status = "listening",
              !.net[id] = [NewSocket(0) EXCEPT
                              !.port = IF listen_location(loc)[2] = 0
                                       THEN ephemeral
                                       ELSE listen_location(loc)[2]]]

\* mutant: close() keeps the socket
stream_close_keeps_sock(w, id) ==
    LET w1 == [w EXCEPT !.st[id].status = "closed"]
    IN  IF ~w.st[id].sock THEN Raise(w1, "AttributeError")
        ELSE w1

\* Stream.close()
stream_close(w, id) ==
    LET w1 == [w EXCEPT !.st[id].status = "closed"]
    IN  IF ~w.st[id].sock THEN Raise(w1, "AttributeError")
        ELSE [w1 EXCEPT !.st[id].sock = FALSE]

\* the peer reads while the program is between two send() calls: the send
\* buffer has net[id].drain[1] bytes free after it
peer_reads(w, id) ==
    IF w.net[id].drain = <<>> THEN w
    ELSE [w EXCEPT !.net[id].room = Head(w.net[id].drain),
                   !.net[id].drain = Tail(@)]

\* the while loop of Stream.sendall
RECURSIVE sendall_loop(_, _, _)
sendall_loop(w, id, retries) ==
    LET box == w.st[id].tcpbox
        k == w.net[id]
    IN  IF Len(box) = 0 \/ retries = 0 THEN w
        ELSE IF ~w.st[id].sock THEN Raise(w, "AttributeError")
        ELSE IF k.peer = "rst"
        THEN [w EXCEPT !.st[id].errno = "ECONNRESET", !.st[id].status = "closed"]
        ELSE IF k.room = 0 /\ Len(box[Len(box)]) > 0
        THEN [w EXCEPT !.st[id].errno = "EWOULDBLOCK"]
        ELSE LET data == box[Len(box)]
                 n == Min(Len(data), k.room)
                 w1 == [w EXCEPT !.net[id].wire = @ \o Slice(data, 0, n),
                                 !.net[id].room = @ - n,
                                 !.hist.short[id] = @ \/ n < Len(data),
                                 !.hist.wrote[id] = @ + n]
             IN  IF n < Len(data)
                 THEN LET w2 == [w1 EXCEPT !.st[id].tcpbox[Len(box)] = Slice(data, 0, n),
                                           !.hist.nshort[id] = @ + 1]
                      IN  IF n = 0 THEN w2
                          ELSE sendall_loop(peer_reads(w2, id), id, retries - 1)
                 ELSE sendall_loop([w1 EXCEPT !.st[id].tcpbox = SubSeq(box, 1, Len(box) - 1)],
                                   id, retries)

\* Stream.sendall(clear_outbox = True)
sendall_clear_outbox(w, id) ==
    IF w.exc # "" THEN w
    ELSE [w EXCEPT !.st[id].outbox = w.st[id].tcpbox]

stream_sendall(w, id) ==
    sendall_clear_outbox(sendall_loop(w, id, sendall_retries), id)

\* Stream.recvall()
RECURSIVE stream_recvall(_, _)
stream_recvall(w, id) ==
    LET k == w.net[id]
    IN  IF ~w.st[id].sock THEN Raise(w, "AttributeError")
        ELSE IF k.peer = "rst"
        THEN [w EXCEPT !.st[id].errno = "ECONNRESET", !.st[id].status = "closed"]
        ELSE IF Len(k.rx) > 0
        THEN LET n == Min(RecvSize, Len(k.rx))
             IN  stream_recvall(
                     [w EXCEPT !.net[id].rx = DelPrefix(k.rx, n),
                               !.st[id].inbox = feed(@, Slice(k.rx, 0, n))], id)
        ELSE IF k.peer = "fin"
        THEN [w EXCEPT !.st[id].status = "closed"]
        ELSE [w EXCEPT !.st[id].errno = "EWOULDBLOCK"]

\* l[::-1]
Reverse(l) == [i \in 1..Len(l) |-> l[Len(l) + 1 - i]]

\* Decoder.get(): [d, ret]
decoder_get(d) == [d |-> [d EXCEPT !.msg = <<>>], ret |-> d.msg]

\* the list Stream.get() returns
stream_get_ret(w, id) == Reverse(decoder_get(w.st[id].inbox).ret)

\* the world after Stream.get()
stream_get(w, id) == [w EXCEPT !.st[id].inbox = decoder_get(@).d]

\* Stream.accept() on listener id: the new Stream gets the next id
\* what the peer has done between its connect() and the accept(): the
\* frames it has sent are in the receive buffer of the new socket
accept_early(w, m, e) ==
    [w EXCEPT !.net[m].rx = Concat([i \in 1..Len(e.sent) |-> Frame(e.sent[i])]),
              !.net[m].peer = e.peer,
              !.hist.sent[m] = e.sent]

stream_accept(w, id) ==
    IF ~w.st[id].sock THEN Raise(w, "AttributeError")
    ELSE IF Len(w.net[id].backlog) = 0 THEN Raise(w, "socket.error")
    ELSE LET m == Len(w.st) + 1
             peer == Head(w.net[id].backlog)
             w1 == Alloc(w, [NewStream EXCEPT !.sock = TRUE,
                                              !.remote_location = peer,
                                              !.type = "accept",
                                              !.status = "accepted"],
                         NewSocket(SendBuffer))
         IN  accept_early([w1 EXCEPT !.net[id].backlog = Tail(@),
                                     !.net[id].early = Tail(@)],
                          m, Head(w.net[id].early))

-----------------------------------------------------------------------------
(* stream.py: select and Server *)

\* what the kernel reports for the socket of Stream id
Readable(w, id) ==
    IF w.st[id].type = "listen" THEN Len(w.net[id].backlog) > 0
    ELSE Len(w.net[id].rx) > 0 \/ w.net[id].peer # "open"

Writable(w, id) ==
    /\ w.st[id].type # "listen"
    /\ w.net[id].room > 0 \/ w.net[id].peer = "rst"

\* select(rlist, wlist, [], timeout) with rlist = wlist = l: [w, r, wl]
select(w, l) ==
    IF \E i \in 1..Len(l) : ~w.st[l[i]].sock
    THEN [w |-> Raise(w, "TypeError"), r |-> <<>>, wl |-> <<>>]
    ELSE [w |-> w,
          r |-> SelectSeq(l, LAMBDA id : Readable(w, id)),
          wl |-> SelectSeq(l, LAMBDA id : Writable(w, id))]

\* Server.handle_recv: a callback that does nothing; the history keeps
\* the messages it was given
handle_recv(w, id, msgs) == [w EXCEPT !.hist.recv[id] = @ \o msgs]

\* Server.handle_accept: a callback that does nothing; the history keeps
\* the Streams it was given
handle_accept(w, id) == [w EXCEPT !.hist.accepts = Append(@, id)]

\* mutant: a connect-role Stream is not put on the retry list
handle_close_no_retry(w, id) ==
    IF w.exc # "" THEN w
    ELSE IF w.st[id].type = "connect" THEN w
    ELSE IF ~InList(w.streams, id) THEN Raise(w, "ValueError")
    ELSE [w EXCEPT !.streams = ListRemove(@, id)]

\* Server.handle_close
handle_close_closed(w, id) ==
    IF w.exc # "" THEN w
    ELSE IF w.st[id].type = "connect"
    THEN [w EXCEPT !.connecting = Append(@, id)]
    ELSE IF ~InList(w.streams, id) THEN Raise(w, "ValueError")
    ELSE [w EXCEPT !.streams = ListRemove(@, id)]

handle_close(w, id) == handle_close_closed(stream_close(w, id), id)

\* Server.queue(msg)
RECURSIVE server_queue_loop(_, _, _)
server_queue_loop(w, i, msg) ==
    IF i > Len(w.streams) THEN w
    ELSE LET id == w.streams[i]
         IN  server_queue_loop(IF w.st[id].type # "listen"
                               THEN stream_queue(w, id, msg) ELSE w,
                               i + 1, msg)

server_queue(w, msg) == server_queue_loop(w, 1, msg)

\* Server.add_connection(addr, port)
add_connection_append(w, id) ==
    [w EXCEPT !.connecting = IF w.st[id].status = "closed"
                             THEN Append(@, id) ELSE @,
              !.streams = Append(@, id)]

add_connection(w, loc) ==
    add_connection_append(
        stream_connect(Alloc(w, NewStream, NewSocket(0)), Len(w.st) + 1, loc),
        Len(w.st) + 1)

\* Server.add_listener(addr, port)
add_listener(w, loc, ephemeral) ==
    [stream_listen(Alloc(w, NewStream, NewSocket(0)), Len(w.st) + 1, loc, ephemeral)
        EXCEPT !.streams = Append(@, Len(w.st) + 1)]

\* mutant: the Stream stays on the retry list
remove_close_keeps_retry(w, r) == [stream_close(w, r) EXCEPT !.exc = w.exc]

\* Server.remove_connection: the loop over the list remove
\* r.close() inside try / except: pass, then the removal from connecting
remove_close(w, r) ==
    [stream_close(w, r) EXCEPT
        !.exc = w.exc,
        !.connecting = IF InList(@, r) THEN ListRemove(@, r) ELSE @]

RECURSIVE remove_loop(_, _, _)
remove_loop(w, remove, i) ==
    IF i > Len(remove) \/ w.exc # "" THEN w
    ELSE remove_loop(
             remove_close([w EXCEPT !.streams = ListRemove(@, remove[i])],
                          remove[i]),
             remove, i + 1)

\* Server.remove_connection(addr, port)
remove_connection(w, loc) ==
    remove_loop(w, SelectSeq(w.streams,
                             LAMBDA id : w.st[id].remote_location = loc), 1)

\* Server.serve: the loop over self.connecting.  Python's list iterator
\* goes by index, so a removal moves the rest of the list under it.
RECURSIVE serve_connect_loop(_, _, _)
RECURSIVE serve_connect_one(_, _, _, _)
serve_connect_loop(w, poll, i) ==
    IF i > Len(w.connecting) THEN [w |-> w, poll |-> poll]
    ELSE serve_connect_one(stream_connect(w, w.connecting[i], NoLocation),
                           poll, w.connecting[i], i)

\* mutant: a Stream that has connected stays on the retry list
serve_connect_stays(w, poll, id, i) ==
    IF w.st[id].status # "closed"
    THEN serve_connect_loop(w, poll, i + 1)
    ELSE IF ~InList(poll, id)
    THEN [w |-> Raise(w, "ValueError"), poll |-> poll]
    ELSE serve_connect_loop(w, ListRemove(poll, id), i + 1)

\* the body of that loop, after stream.connect() on Stream id
serve_connect_one(w, poll, id, i) ==
    IF w.st[id].status # "closed"
    THEN serve_connect_loop([w EXCEPT !.connecting = ListRemove(@, id)],
                            poll, i + 1)
    ELSE IF ~InList(poll, id)
    THEN [w |-> Raise(w, "ValueError"), poll |-> poll]
    ELSE serve_connect_loop(w, ListRemove(poll, id), i + 1)

\* mutant: the accepted Stream is registered, handle_accept is not called
serve_accepted_silent(w) ==
    IF w.exc # "" THEN w
    ELSE [w EXCEPT !.streams = Append(@, Len(w.st))]

\* Server.serve: the body of the loop over r for one readable Stream
\* the listen branch, after _r.accept()
serve_accepted(w) ==
    IF w.exc # "" THEN w
    ELSE handle_accept([w EXCEPT !.streams = Append(@, Len(w.st))], Len(w.st))

\* the other branch, after _r.recvall()
serve_received(w, id) ==
    IF w.exc # "" THEN w
    ELSE IF Len(stream_get_ret(w, id)) > 0
    THEN handle_recv(stream_get(w, id), id, stream_get_ret(w, id))
    ELSE stream_get(w, id)

\* the test of _r.status that ends the body
serve_read_closed(w, id) ==
    IF w.exc # "" THEN [w |-> w, closed |-> FALSE]
    ELSE IF w.st[id].status = "closed"
    THEN [w |-> handle_close(w, id), closed |-> TRUE]
    ELSE [w |-> w, closed |-> FALSE]

serve_read_one(w, id) ==
    serve_read_closed(IF w.st[id].type = "listen"
                      THEN serve_accepted(stream_accept(w, id))
                      ELSE serve_received(stream_recvall(w, id), id),
                      id)

\* Server.serve: the loop over r; wl is the list w of the source
RECURSIVE serve_read_loop(_, _, _, _)
RECURSIVE serve_read_next(_, _, _, _)
serve_read_loop(w, r, wl, i) ==
    IF i > Len(r) \/ w.exc # "" THEN [w |-> w, wl |-> wl]
    ELSE serve_read_next(serve_read_one(w, r[i]), r, wl, i)

\* if _r in w: w.remove(_r), and the next turn of the loop
serve_read_next(one, r, wl, i) ==
    serve_read_loop(one.w, r,
                    IF one.closed /\ one.w.exc = "" /\ InList(wl, r[i])
                    THEN ListRemove(wl, r[i]) ELSE wl,
                    i + 1)

\* Server.serve: the loop over w
serve_write_closed(w, id) ==
    IF w.exc = "" /\ w.st[id].status = "closed" THEN handle_close(w, id) ELSE w

RECURSIVE serve_write_loop(_, _, _)
serve_write_loop(w, wl, i) ==
    IF i > Len(wl) \/ w.exc # "" THEN w
    ELSE serve_write_loop(serve_write_closed(stream_sendall(w, wl[i]), wl[i]),
                          wl, i + 1)

\* Server.serve(timeout)
serve_write(r) == serve_write_loop(r.w, r.wl, 1)

serve_selected(s) ==
    IF s.w.exc # "" THEN s.w
    ELSE serve_write(serve_read_loop(s.w, s.r, s.wl, 1))

serve_connected(c) ==
    IF c.w.exc # "" THEN c.w ELSE serve_selected(select(c.w, c.poll))

serve(w) == serve_connected(serve_connect_loop(w, w.streams, 1))

-----------------------------------------------------------------------------
(* snapshot.py: Entry and Snapshot.  A Snapshot is its list entries; a
   systime is a number of minutes. *)

Entry(name, addr, port, systime) ==
    [systime |-> systime, pid |-> 1, addr |-> addr, port |-> port,
     status |-> "None", status_color |-> "white", name |-> name]

\* Entry.isupdate(other)
isupdate(self, other) ==
    IF self.addr # other.addr THEN FALSE
    ELSE IF str(self.port) # str(other.port) THEN FALSE
    ELSE IF self.systime < other.systime THEN FALSE
    ELSE TRUE

\* Snapshot.remove_entry(entry): every element equal to entry goes
remove_entry(entries, entry) == SelectSeq(entries, LAMBDA e : e # entry)

\* Snapshot.add_entry: the loop over self.entries.  The list iterator goes by
\* index, so the element that follows a removed one is not looked at.
RECURSIVE add_entry_loop(_, _, _)
add_entry_loop(entries, entry, i) ==
    IF i > Len(entries) THEN entries
    ELSE add_entry_loop(IF isupdate(entry, entries[i])
                        THEN remove_entry(entries, entries[i]) ELSE entries,
                        entry, i + 1)

\* Snapshot.add_entry(entry)
add_entry(entries, entry) == Append(add_entry_loop(entries, entry, 1), entry)

\* set(self.entries)
EntrySet(entries) == {entries[i] : i \in 1..Len(entries)}

\* Snapshot.__sub__(self, other): the lists add and remove, as sets
snapshot_sub(self, other) ==
    [add |-> EntrySet(other) \ EntrySet(self),
     remove |-> EntrySet(self) \ EntrySet(other)]

NoDiff == [done |-> FALSE, add |-> {}, remove |-> {}]

SnapIdle ==
    /\ snap0 = <<>>
    /\ snap1 = <<>>
    /\ diff = NoDiff

-----------------------------------------------------------------------------
(* pb2.py: Aggregator.  A decoded payload is a message [json, event, name,
   pid, addr, port, systime]: json says whether json.loads accepts it, event
   is "" when the object has no key 'event'. *)

PurgeAge == 3

Message(json, event) ==
    [json |-> json, event |-> event, name |-> "", pid |-> 0, addr |-> "",
     port |-> 0, systime |-> 0]

\* the heartbeat Publisher.pulse() queues
Pulse(name, addr, port, systime) ==
    [json |-> TRUE, event |-> "pulse", name |-> name, pid |-> 1, addr |-> addr,
     port |-> port, systime |-> systime]

\* Aggregator.__init__
EmptyDict == [x \in {} |-> x]

AggregatorInit(now) ==
    [entries |-> EmptyDict, systime |-> now, pulses |-> <<>>, data |-> <<>>,
     exc |-> ""]

\* entries[name] = entry, on a dict held as a function
DictSet(d, k, v) == [x \in DOMAIN d \cup {k} |-> IF x = k THEN v ELSE d[x]]

\* del entries[name] for every name of remove
DictDel(d, remove) == [x \in DOMAIN d \ remove |-> d[x]]

\* mutant: the entry gets the address of the Aggregator's own host
RECURSIVE apply_pulses_local(_)
apply_pulses_local(a) ==
    IF Len(a.pulses) = 0 THEN a
    ELSE apply_pulses_local(
             [a EXCEPT !.pulses = SubSeq(@, 1, Len(@) - 1),
                       !.entries = DictSet(@, a.pulses[Len(a.pulses)].name,
                           [systime |-> a.pulses[Len(a.pulses)].systime,
                            pid |-> a.pulses[Len(a.pulses)].pid,
                            addr |-> "localhost",
                            port |-> a.pulses[Len(a.pulses)].port])])

\* Aggregator.update_snapshot: the loop over self.pulses
RECURSIVE apply_pulses(_)
apply_pulses(a) ==
    IF Len(a.pulses) = 0 THEN a
    ELSE apply_pulses(
             [a EXCEPT !.pulses = SubSeq(@, 1, Len(@) - 1),
                       !.entries = DictSet(@, a.pulses[Len(a.pulses)].name,
                           [systime |-> a.pulses[Len(a.pulses)].systime,
                            pid |-> a.pulses[Len(a.pulses)].pid,
                            addr |-> a.pulses[Len(a.pulses)].addr,
                            port |-> a.pulses[Len(a.pulses)].port])])

\* mutant: nothing is purged
purge_nothing(a, now) == [a EXCEPT !.systime = now]

\* Aggregator.update_snapshot: the purge
purge(a, now) ==
    [a EXCEPT !.entries = DictDel(@, {n \in DOMAIN @ : @[n].systime < now - PurgeAge}),
              !.systime = now]

\* Aggregator.update_snapshot(): the Aggregator after the call
update_snapshot(a, now) == purge(apply_pulses(a), now)

\* json.dumps(self.snapshot)
Dumps(a) == [entries |-> a.entries, systime |-> a.systime]

\* mutant: every JSON payload with an event is kept as data
RECURSIVE recv_loop_keeps_all(_, _, _, _)
recv_loop_keeps_all(a, msgs, i, do_new_snapshot) ==
    IF i > Len(msgs) THEN [a |-> a, do_new_snapshot |-> do_new_snapshot]
    ELSE IF ~msgs[i].json THEN recv_loop_keeps_all(a, msgs, i + 1, do_new_snapshot)
    ELSE IF msgs[i].event = ""
    THEN [a |-> [a EXCEPT !.exc = "KeyError"], do_new_snapshot |-> FALSE]
    ELSE recv_loop_keeps_all(
             [a EXCEPT !.data = Append(@, msgs[i]),
                       !.pulses = IF msgs[i].event = "pulse"
                                  THEN Append(@, msgs[i]) ELSE @],
             msgs, i + 1,
             do_new_snapshot \/ msgs[i].event = "request_snapshot")

\* Aggregator.handle_recv: the loop over msgs; [a, do_new_snapshot]
RECURSIVE recv_loop(_, _, _, _)
recv_loop(a, msgs, i, do_new_snapshot) ==
    IF i > Len(msgs) THEN [a |-> a, do_new_snapshot |-> do_new_snapshot]
    ELSE IF ~msgs[i].json THEN recv_loop(a, msgs, i + 1, do_new_snapshot)
    ELSE IF msgs[i].event = ""
    THEN [a |-> [a EXCEPT !.exc = "KeyError"], do_new_snapshot |-> FALSE]
    ELSE recv_loop(
             [a EXCEPT !.data = IF msgs[i].event = "data"
                                THEN Append(@, msgs[i]) ELSE @,
                       !.pulses = IF msgs[i].event = "pulse"
                                  THEN Append(@, msgs[i]) ELSE @],
             msgs, i + 1,
             do_new_snapshot \/ msgs[i].event = "request_snapshot")

\* Aggregator.handle_recv, after the loop: [a, queued], queued being what
\* is queued on the stream
recv_reply(r, now) ==
    IF r.do_new_snapshot
    THEN [a |-> update_snapshot(r.a, now),
          queued |-> <<Dumps(update_snapshot(r.a, now))>>]
    ELSE [a |-> r.a, queued |-> <<>>]

\* Aggregator.handle_recv(stream, msgs)
agg_handle_recv(a, msgs, now) == recv_reply(recv_loop(a, msgs, 1, FALSE), now)

\* Aggregator.handle_accept(stream)
agg_handle_accept(a) == [a |-> a, queued |-> <<Dumps(a)>>]

AggIdle ==
    /\ agg = AggregatorInit(0)
    /\ clock = 0
    /\ agghist = [emitted |-> <<>>, heard |-> {}, fresh |-> {}, lapsed |-> {},
                  last |-> "init", nrecv |-> 0, naccept |-> 0]

\* netstring.py: File.write(msg) appends the frame "\n<len>:<msg>," to the
\* file; the file is held as the list of the payloads of its frames
file_write(file, msg) == Append(file, msg)

\* Aggregator.dump(): [a, file] after the call
RECURSIVE dump(_, _)
dump(a, file) ==
    IF Len(a.data) = 0 THEN [a |-> a, file |-> file]
    ELSE dump([a EXCEPT !.data = SubSeq(@, 1, Len(@) - 1)],
              file_write(file, a.data[Len(a.data)]))

\* netstring.py: File.flush() on a disk that takes room more frames.  The
\* file is opened with a buffer of 1 << 24 bytes, so the frames written in
\* one dump() reach the disk in flush(): [file, raised]
file_flush(file, written, room) ==
    [file |-> file \o SubSeq(written, 1, Min(room, Len(written))),
     raised |-> room < Len(written)]

\* Aggregator.dump() on such a disk: [a, file]; an IOError of flush() goes
\* through the with statement to the caller
dump_flushed(r, f) ==
    [a |-> IF f.raised THEN [r.a EXCEPT !.exc = "IOError"] ELSE r.a,
     file |-> f.file]

dump_room(a, file, room) ==
    dump_flushed(dump(a, <<>>), file_flush(file, dump(a, <<>>).file, room))

-----------------------------------------------------------------------------
(* pb2.py: Publisher.  json.dumps writes the pulse as the text
   {"event": "pulse", "name": ..., "pid": ..., "addr": ..., "port": ...,
   "systime": ...}; a name and an address are one byte long here. *)

json_event_name ==
    <<"{", "\"", "e", "v", "e", "n", "t", "\"", ":", " ", "\"", "p", "u",
      "l", "s", "e", "\"", ",", " ", "\"", "n", "a", "m", "e", "\"", ":",
      " ", "\"">>

json_pid ==
    <<"\"", ",", " ", "\"", "p", "i", "d", "\"", ":", " ">>

json_addr ==
    <<",", " ", "\"", "a", "d", "d", "r", "\"", ":", " ">>

json_port ==
    <<",", " ", "\"", "p", "o", "r", "t", "\"", ":", " ">>

json_systime ==
    <<",", " ", "\"", "s", "y", "s", "t", "i", "m", "e", "\"", ":", " ",
      "\"">>

json_end ==
    <<"\"", "}">>

json_null ==
    <<"n", "u", "l", "l">>

json_request ==
    <<"{", "\"", "e", "v", "e", "n", "t", "\"", ":", " ", "\"", "r", "e",
      "q", "u", "e", "s", "t", "_", "s", "n", "a", "p", "s", "h", "o", "t",
      "\"", "}">>

\* json.dumps(d) of the pulse d
json_dumps(d) ==
    json_event_name \o <<d.name>> \o json_pid \o str(d.pid)
    \o json_addr \o (IF d.addr = "None" THEN json_null
                      ELSE <<"\"", d.addr, "\"">>)
    \o json_port \o (IF d.port = None THEN json_null ELSE str(d.port))
    \o json_systime \o str(d.systime) \o json_end

\* Publisher.pulse: the loop over self.streams; the host_location of the
\* last listening stream, or (None, None)
RECURSIVE pulse_location(_, _, _)
pulse_location(w, i, loc) ==
    IF i > Len(w.streams) THEN loc
    ELSE pulse_location(w, i + 1,
             IF w.st[w.streams[i]].status = "listening"
             THEN w.st[w.streams[i]].host_location ELSE loc)

\* Publisher.pulse: the dict d
pulse_dict(w, name, now) ==
    Pulse(name, pulse_location(w, 1, NoLocation)[1],
          pulse_location(w, 1, NoLocation)[2], now)

\* Publisher.pulse(): the Server after the call
pulse(w, name, now) == server_queue(w, json_dumps(pulse_dict(w, name, now)))

\* Publisher.__init__(name, agg_addr, agg_port), after Server.__init__
PublisherInit(w, aggregator, ephemeral, name, now) ==
    pulse(add_listener(add_connection(w, aggregator), NoLocation, ephemeral),
          name, now)

\* mutant: the inbox is a ring of 128 payloads
pub_handle_recv_ring(inbox, msgs) ==
    SubSeq(inbox \o msgs, Max(1, Len(inbox \o msgs) - 127), Len(inbox \o msgs))

\* Publisher.handle_recv(stream, msgs): self.inbox
pub_handle_recv(inbox, msgs) == inbox \o msgs

\* Publisher.serve(): due says that more than 15 seconds have passed since
\* the last pulse
pub_serve(w, name, now, due) == serve(IF due THEN pulse(w, name, now) ELSE w)

\* Publisher.serve: t - self.t_last_pulse > datetime.timedelta(seconds=15),
\* with the time in seconds
PulseInterval == 15

\* mutant: a pulse is due as soon as 15 seconds have passed
pulse_due_at_interval(t_last_pulse, t) == t - t_last_pulse >= PulseInterval

pulse_due(t_last_pulse, t) == t - t_last_pulse > PulseInterval

\* Publisher.pulse() at the time t, on x = [w, p]: the Server part w and the
\* other attributes p of the Publisher
publisher_pulse(x, t) ==
    [w |-> pulse(x.w, x.p.name, t), p |-> [x.p EXCEPT !.t_last_pulse = t]]

\* Publisher.__init__(name, agg_addr, agg_port) at the time t
publisher_new(w, aggregator, ephemeral, name, t) ==
    publisher_pulse(
        [w |-> add_listener(add_connection(w, aggregator), NoLocation, ephemeral),
         p |-> [name |-> name, inbox |-> <<>>, t_last_pulse |-> None]], t)

\* Publisher.serve() at the time t
publisher_served(x) == [x EXCEPT !.w = serve(@)]

publisher_serve(x, t) ==
    publisher_served(IF pulse_due(x.p.t_last_pulse, t) THEN publisher_pulse(x, t)
                     ELSE x)

-----------------------------------------------------------------------------
(* pb2.py: Subscriber.  A snapshot message is [json, event, entries], entries
   being a dict name -> [addr, port].  An operator on the Subscriber works
   on x = [w, s]: the Server part w and the other attributes s. *)

SnapshotsMaxlen == 128

\* a snapshot as the Aggregator sends it
SnapshotMsg(entries) == [json |-> TRUE, event |-> "snapshot", entries |-> entries]

\* deque([], maxlen=128).append(m) for every m of ms, in order: the deque
\* keeps the last 128
deque_append(q, ms) ==
    SubSeq(q \o ms, Max(1, Len(q \o ms) - SnapshotsMaxlen + 1), Len(q \o ms))

\* Subscriber.__init__(agg_addr, agg_port), after Server.__init__
SubscriberInit(w, aggregator) ==
    [w |-> add_connection(w, aggregator),
     s |-> [aggregator |-> Len(w.st) + 1, snapshots |-> <<>>,
            new_snapshot |-> FALSE, data |-> <<>>, index |-> EmptyDict,
            initial_connect |-> FALSE]]

\* Subscriber.request_snapshot()
request_snapshot(x) ==
    [x EXCEPT !.w = stream_queue(x.w, x.s.aggregator, json_request)]

IsSnapshot(m) == m.json /\ m.event = "snapshot"

IsData(m) == m.json /\ m.event = "data"

\* the messages a handle_recv loop gets through: all of them, or the ones
\* before the first JSON object without 'event', where m['event'] raises
Handled(msgs) ==
    SubSeq(msgs, 1,
           Min(Len(msgs) + 1,
               CHOOSE i \in 1..(Len(msgs) + 1) :
                   /\ i <= Len(msgs) => msgs[i].json /\ msgs[i].event = ""
                   /\ \A j \in 1..(i - 1) : ~(msgs[j].json /\ msgs[j].event = ""))
           - 1)

\* Subscriber.handle_recv(stream, msgs), the msgs it gets through being done
sub_recv_done(x, done, raised) ==
    [x EXCEPT !.s.snapshots = deque_append(@, SelectSeq(done, IsSnapshot)),
              !.s.new_snapshot = @ \/ SelectSeq(done, IsSnapshot) # <<>>,
              !.s.data = @ \o SelectSeq(done, IsData),
              !.w = IF raised THEN Raise(@, "KeyError") ELSE @]

\* Subscriber.handle_recv(stream, msgs)
sub_handle_recv(x, msgs) ==
    sub_recv_done(x, Handled(msgs), Len(Handled(msgs)) < Len(msgs))

\* the names of a dict in the order a for loop gives them
RECURSIVE Keys(_)
Keys(names) ==
    IF names = {} THEN <<>>
    ELSE <<CHOOSE n \in names : TRUE>>
         \o Keys(names \ {CHOOSE n \in names : TRUE})

\* for name in entries: the list of (entry['addr'], entry['port'])
EntryLocations(entries) ==
    [i \in 1..Len(Keys(DOMAIN entries)) |->
        <<entries[Keys(DOMAIN entries)[i]].addr,
          entries[Keys(DOMAIN entries)[i]].port>>]

\* Subscriber.build_index()
RECURSIVE index_stream(_, _, _, _)
index_stream(w, loc, i, found) ==
    IF i > Len(w.streams) THEN found
    ELSE index_stream(w, loc, i + 1,
             IF w.st[w.streams[i]].remote_location = loc
             THEN w.streams[i] ELSE found)

build_index_of(w, entries) ==
    [n \in {m \in DOMAIN entries :
               index_stream(w, <<entries[m].addr, entries[m].port>>, 1, 0) # 0} |->
        index_stream(w, <<entries[n].addr, entries[n].port>>, 1, 0)]

build_index(x) ==
    [x EXCEPT !.s.index =
        build_index_of(x.w, x.s.snapshots[Len(x.s.snapshots)].entries)]

\* Subscriber.snapshotdiff(s0, s1): [add, remove], as lists
snapshotdiff(s0, s1) ==
    [add |-> Keys({<<s1.entries[n].addr, s1.entries[n].port>> : n \in DOMAIN s1.entries}
                  \ {<<s0.entries[n].addr, s0.entries[n].port>> : n \in DOMAIN s0.entries}),
     remove |-> Keys({<<s0.entries[n].addr, s0.entries[n].port>> : n \in DOMAIN s0.entries}
                     \ {<<s1.entries[n].addr, s1.entries[n].port>> : n \in DOMAIN s1.entries})]

\* for address in add: self.add_connection(*address)
RECURSIVE add_connections(_, _, _)
add_connections(w, add, i) ==
    IF i > Len(add) \/ w.exc # "" THEN w
    ELSE add_connections(add_connection(w, add[i]), add, i + 1)

\* for address in remove: self.remove_connection(*address)
RECURSIVE remove_connections(_, _, _)
remove_connections(w, remove, i) ==
    IF i > Len(remove) \/ w.exc # "" THEN w
    ELSE remove_connections(remove_connection(w, remove[i]), remove, i + 1)

\* Subscriber.apply_diff(add, remove)
apply_diff(w, d) == remove_connections(add_connections(w, d.add, 1), d.remove, 1)

\* Subscriber.serve: if self.new_snapshot and not self.initial_connect
sub_initial_connect(x) ==
    IF x.s.new_snapshot /\ ~x.s.initial_connect
    THEN build_index(
             [x EXCEPT !.w = add_connections(@,
                           EntryLocations(x.s.snapshots[Len(x.s.snapshots)].entries), 1),
                       !.s.initial_connect = TRUE])
    ELSE x

\* Subscriber.serve: add, remove of the second branch
sub_diff(snapshots) ==
    IF Len(snapshots) = 1
    THEN [add |-> EntryLocations(snapshots[1].entries), remove |-> <<>>]
    ELSE snapshotdiff(snapshots[Len(snapshots) - 1], snapshots[Len(snapshots)])

\* Subscriber.serve: if self.new_snapshot and self.initial_connect
sub_follow(x) ==
    IF x.s.new_snapshot /\ x.s.initial_connect
    THEN build_index([x EXCEPT !.w = apply_diff(@, sub_diff(x.s.snapshots)),
                               !.s.new_snapshot = FALSE])
    ELSE x

\* Subscriber.serve(), up to the call of Server.serve
sub_serve_prepare(x) == request_snapshot(sub_follow(sub_initial_connect(x)))

\* Subscriber.serve(): Server.serve hands msgs, what Stream.get() returns
\* for the stream of the Aggregator, to handle_recv
sub_serve(x, msgs) ==
    sub_handle_recv([sub_serve_prepare(x) EXCEPT !.w = serve(@)], msgs)

RoleIdle ==
    /\ publisher = [name |-> "p", inbox |-> <<>>, t_last_pulse |-> 0]
    /\ subscriber = [aggregator |-> 0, snapshots |-> <<>>,
                     new_snapshot |-> FALSE, data |-> <<>>,
                     index |-> EmptyDict, initial_connect |-> FALSE]
    /\ rolehist = [pulses |-> <<>>, delivered |-> {}, arrived |-> <<>>,
                   narrived |-> 0, inbox |-> <<>>, data |-> <<>>, queued |-> <<>>, nserve |-> 0]
    /\ pc = "serve"
    /\ logfile = <<>>
    /\ loophist = [emitted |-> <<>>, pulsed |-> [n \in {"p"} |-> None],
                   via |-> {}, carried |-> {}, got |-> <<>>, before |-> <<>>, wrote |-> <<>>, room |-> 0, start |-> 0,
                   nrecv |-> 0, naccept |-> 0]

-----------------------------------------------------------------------------
(* The codec specification: a byte stream, made of noise and frames, is fed
   to a fresh Decoder in chunks of any sizes. *)

PayloadAlphabet == {"a", "1", ":", ","}

GarbageAlphabet == {"g", "1", ":", "\n"}

Strings(alphabet, n) == UNION {[1..k -> alphabet] : k \in 0..n}

\* the sequences of at most k payloads holding at most budget bytes in all
RECURSIVE PayloadSeqs(_, _)
PayloadSeqs(k, budget) ==
    IF k = 0 THEN {<<>>}
    ELSE {<<>>} \cup
         UNION {{<<p>> \o rest : rest \in PayloadSeqs(k - 1, budget - Len(p))} :
                p \in Strings(PayloadAlphabet, budget)}

\* a payload whose prefix has two digits, and one that Stream.queue splits
\* into three segments
LongPayload == <<"1", ":", "a", ",", "2", ":", "b", "c", ",", "1">>

BigPayload == [i \in 1..(SegmentThreshold - 5) |-> "x"]

MakeInput(g, ps) ==
    [garbage |-> g, payloads |-> ps,
     bytes |-> g \o Concat([i \in 1..Len(ps) |-> Frame(ps[i])])]

Inputs ==
    {MakeInput(<<>>, ps) : ps \in PayloadSeqs(MaxFrames, MaxPayloadBytes) \ {<<>>}}
    \cup {MakeInput(g, <<p>>) : g \in Strings(GarbageAlphabet, MaxGarbage),
                                p \in Strings(PayloadAlphabet, MaxPayloadBytes)}
    \cup {MakeInput(<<>>, <<LongPayload>>), MakeInput(<<>>, <<LongPayload, <<"a">>>>),
          MakeInput(<<"g">>, <<LongPayload>>), MakeInput(<<>>, <<BigPayload>>)}

\* the Server of a program that has just been constructed
ServerIdle ==
    /\ streams = <<>>
    /\ connecting = <<>>
    /\ st = <<>>
    /\ net = <<>>
    /\ reach = {}
    /\ hist = [queued |-> <<>>, short |-> <<>>, sent |-> <<>>, recv |-> <<>>,
               wrote |-> <<>>, again |-> <<>>, nshort |-> <<>>, accepts |-> <<>>,
               nqueue |-> 0, nsent |-> 0, ncongest |-> 0]
    /\ exc = ""

CodecInit ==
    /\ ServerIdle
    /\ SnapIdle
    /\ AggIdle
    /\ RoleIdle
    /\ dec = DecoderInit
    /\ input \in Inputs
    /\ fed = 0
    /\ split = FALSE

\* one feed() call with the next n bytes of the stream
Feed(n) ==
    /\ fed + n <= Len(input.bytes)
    /\ dec' = feed(dec, Slice(input.bytes, fed, fed + n))
    /\ fed' = fed + n
    /\ split' = (split \/ fed + n < Len(input.bytes))
    /\ UNCHANGED <<input, serverVars, snapVars, aggVars, roleVars>>

FeedChunk ==
    \E n \in (1..MaxChunk) \cup {Len(input.bytes) - fed} :
        /\ n > 0
        /\ Feed(n)

CodecNext == FeedChunk

SpecCodec == CodecInit /\ [][CodecNext]_vars

\* the payloads among the events of a decoder, in order
Payloads(msg) ==
    LET sel == SelectSeq(msg, LAMBDA e : ~e.isint)
    IN  [i \in 1..Len(sel) |-> sel[i].data]

\* the sum of the discard reports among the events
RECURSIVE Discarded(_)
Discarded(msg) ==
    IF Len(msg) = 0 THEN 0
    ELSE (IF msg[1].isint THEN 0 - msg[1].n ELSE 0) + Discarded(Tail(msg))

Done == fed = Len(input.bytes)

-----------------------------------------------------------------------------
(* The server specification: a program that owns one Server calls its
   methods in any order, while peers connect, send, read and close. *)

RemoteLocations == {<<"A", 1>>, <<"B", 2>>}

ListenLocation == <<"L", 0>>

\* the ports the kernel gives to a socket bound to port 0
EphemeralPorts == {49152, 49153}

PeerLocations == {<<"P", 5>>}

ServerPayloads == {<<"a">>, <<"b">>, BigPayload}

PeerPayloads == {<<"a">>, <<"b">>}

World == [streams |-> streams, connecting |-> connecting, st |-> st,
          net |-> net, reach |-> reach, hist |-> hist, exc |-> exc]

SetWorld(w) ==
    /\ streams' = w.streams
    /\ connecting' = w.connecting
    /\ st' = w.st
    /\ net' = w.net
    /\ reach' = w.reach
    /\ hist' = w.hist
    /\ exc' = w.exc

CodecIdle ==
    /\ dec = DecoderInit
    /\ input = MakeInput(<<>>, <<>>)
    /\ fed = 0
    /\ split = FALSE

Ids == 1..Len(st)

\* Stream id has a socket that is connected to a peer
Live(id) == st[id].sock /\ st[id].type # "listen"

Backlogs == Concat([i \in 1..Len(st) |-> net[i].backlog])

\* the program
AddListener ==
    /\ exc = ""
    /\ Len(st) + Len(Backlogs) < MaxStreams
    /\ \A id \in Ids : st[id].type # "listen"
    /\ \E ephemeral \in EphemeralPorts :
           SetWorld(add_listener(World, ListenLocation, ephemeral))
    /\ UNCHANGED <<codecVars, snapVars, aggVars, roleVars>>

AddConnection ==
    /\ exc = ""
    /\ Len(st) + Len(Backlogs) < MaxStreams
    /\ Len(SelectSeq(st, LAMBDA x : x.type = "connect")) < MaxConnections
    /\ \E loc \in RemoteLocations : SetWorld(add_connection(World, loc))
    /\ UNCHANGED <<codecVars, snapVars, aggVars, roleVars>>

RemoveConnectionAt(loc) ==
    /\ exc = ""
    /\ SetWorld(remove_connection(World, loc))
    /\ UNCHANGED <<codecVars, snapVars, aggVars, roleVars>>

RemoveConnection ==
    \E loc \in RemoteLocations \cup PeerLocations : RemoveConnectionAt(loc)

QueueMsg(msg) ==
    /\ exc = ""
    /\ hist.nqueue < MaxQueued
    /\ SetWorld([server_queue(World, msg) EXCEPT !.hist.nqueue = @ + 1])
    /\ UNCHANGED <<codecVars, snapVars, aggVars, roleVars>>

Queue == \E msg \in ServerPayloads : QueueMsg(msg)

Serve ==
    /\ exc = ""
    /\ SetWorld(serve(World))
    /\ UNCHANGED <<codecVars, snapVars, aggVars, roleVars>>

\* the peers and the network
PeerListen ==
    /\ \E loc \in RemoteLocations : reach' = reach \cup {loc} /\ loc \notin reach
    /\ UNCHANGED <<streams, connecting, st, net, hist, exc>>
    /\ UNCHANGED <<codecVars, snapVars, aggVars, roleVars>>

PeerUnlisten ==
    /\ \E loc \in reach : reach' = reach \ {loc}
    /\ UNCHANGED <<streams, connecting, st, net, hist, exc>>
    /\ UNCHANGED <<codecVars, snapVars, aggVars, roleVars>>

PeerConnect ==
    /\ Len(st) + Len(Backlogs) < MaxStreams
    /\ \E id \in Ids, from \in PeerLocations :
        /\ st[id].type = "listen" /\ st[id].sock
        /\ net' = [net EXCEPT ![id].backlog = Append(@, from),
                               ![id].early = Append(@, [sent |-> <<>>, peer |-> "open"])]
    /\ UNCHANGED <<streams, connecting, st, reach, hist, exc>>
    /\ UNCHANGED <<codecVars, snapVars, aggVars, roleVars>>

PeerSend ==
    /\ hist.nsent < MaxPeerFrames
    /\ \E id \in Ids, p \in PeerPayloads :
        /\ Live(id) /\ net[id].peer = "open"
        /\ net' = [net EXCEPT ![id].flight = @ \o Frame(p)]
        /\ hist' = [hist EXCEPT !.sent[id] = Append(@, p), !.nsent = @ + 1]
    /\ UNCHANGED <<streams, connecting, st, reach, exc>>
    /\ UNCHANGED <<codecVars, snapVars, aggVars, roleVars>>

Deliver ==
    /\ \E id \in Ids :
        /\ Live(id) /\ net[id].peer # "rst"
        /\ \E n \in 1..Len(net[id].flight) :
             net' = [net EXCEPT ![id].rx = @ \o Slice(net[id].flight, 0, n),
                                ![id].flight = DelPrefix(@, n)]
    /\ UNCHANGED <<streams, connecting, st, reach, hist, exc>>
    /\ UNCHANGED <<codecVars, snapVars, aggVars, roleVars>>

PeerClose ==
    /\ \E id \in Ids :
        /\ Live(id) /\ net[id].peer = "open" /\ net[id].flight = <<>>
        /\ net' = [net EXCEPT ![id].peer = "fin"]
    /\ UNCHANGED <<streams, connecting, st, reach, hist, exc>>
    /\ UNCHANGED <<codecVars, snapVars, aggVars, roleVars>>

PeerReset ==
    /\ \E id \in Ids :
        /\ Live(id) /\ net[id].peer # "rst"
        /\ net' = [net EXCEPT ![id].peer = "rst", ![id].flight = <<>>, ![id].rx = <<>>]
    /\ UNCHANGED <<streams, connecting, st, reach, hist, exc>>
    /\ UNCHANGED <<codecVars, snapVars, aggVars, roleVars>>

\* the send buffer of a socket fills up, or the peer reads and empties it
Congest ==
    /\ \E id \in Ids, n \in 0..MaxRoom :
        /\ Live(id) /\ net[id].room > n /\ hist.ncongest < MaxCongest
        /\ net' = [net EXCEPT ![id].room = n]
        /\ hist' = [hist EXCEPT !.ncongest = @ + 1]
    /\ UNCHANGED <<streams, connecting, st, reach, exc>>
    /\ UNCHANGED <<codecVars, snapVars, aggVars, roleVars>>

Drain ==
    /\ \E id \in Ids :
        /\ Live(id) /\ net[id].peer = "open" /\ net[id].room < SendBuffer
        /\ net' = [net EXCEPT ![id].room = SendBuffer]
    /\ UNCHANGED <<streams, connecting, st, reach, hist, exc>>
    /\ UNCHANGED <<codecVars, snapVars, aggVars, roleVars>>

\* The send scenario: the program connects to peers that accept, queues
\* payloads and serves, while the send buffers fill up and empty.
SendInit ==
    /\ streams = <<>>
    /\ connecting = <<>>
    /\ st = <<>>
    /\ net = <<>>
    /\ reach = RemoteLocations
    /\ hist = [queued |-> <<>>, short |-> <<>>, sent |-> <<>>, recv |-> <<>>,
               wrote |-> <<>>, again |-> <<>>, nshort |-> <<>>, accepts |-> <<>>,
               nqueue |-> 0, nsent |-> 0, ncongest |-> 0]
    /\ exc = ""
    /\ CodecIdle
    /\ SnapIdle
    /\ AggIdle
    /\ RoleIdle

SendNext == AddConnection \/ Queue \/ Serve \/ Congest \/ Drain

SpecSend == SendInit /\ [][SendNext]_vars

\* The receive scenario: peers connect to the program's listener, send
\* frames that arrive in pieces, and close.
RecvInit == ServerIdle /\ CodecIdle /\ SnapIdle /\ AggIdle /\ RoleIdle

RecvNext ==
    \/ AddListener \/ PeerConnect \/ PeerSend \/ Deliver \/ PeerClose \/ Serve

SpecRecv == RecvInit /\ [][RecvNext]_vars

-----------------------------------------------------------------------------
(* Claims about the codec, checked under SpecCodec *)

HasDigit(s) == \E i \in 1..Len(s) : IsDigit(s[i])

\* C1: the frame Stream.queue makes of a payload P, fed to a fresh Decoder
\* (in one feed call or in several), yields exactly one event, the payload
\* P, and leaves the decoder buffer empty.
C1_RoundTrip ==
    (Done /\ input.garbage = <<>> /\ Len(input.payloads) = 1)
        => /\ dec.msg = <<Payload(input.payloads[1])>>
           /\ dec.buf = <<>>

\* a payload holding a digit, ':' and ',' has made the round trip
C1_Witness ==
    /\ Done
    /\ input.garbage = <<>>
    /\ input.payloads = <<<<"1", ":", ",">>>>
    /\ dec.msg = <<Payload(<<"1", ":", ",">>)>>

\* C2: the bytes of a sequence of valid frames, fed in chunks of any sizes,
\* yield the same payloads (indeed the same events) as one feed call with
\* all the bytes.
C2_ChunkingInvariance ==
    (Done /\ input.garbage = <<>>)
        => LET whole == feed(DecoderInit, input.bytes)
           IN  /\ dec.msg = whole.msg
               /\ Payloads(dec.msg) = input.payloads

\* two frames were fed in more than one chunk and both payloads came out
C2_Witness ==
    /\ Done
    /\ split
    /\ input.garbage = <<>>
    /\ Len(input.payloads) = 2
    /\ Len(Payloads(dec.msg)) = 2

-----------------------------------------------------------------------------
(* Claims about Stream and Server (stream.py) *)

\* the payloads the peer of Stream id has sent, and those given to handle_recv
SentTo(id) == hist.sent[id]

Received(id) == Payloads(hist.recv[id])

\* the frames of the payloads queued on Stream id, in queue() call order
QueuedBytes(id) ==
    Concat([k \in 1..Len(hist.queued[id]) |-> Frame(hist.queued[id][k])])

\* sub occurs in s as a run of consecutive bytes
Contains(s, sub) ==
    \E i \in {j \in 1..(Len(s) - Len(sub) + 1) : s[j] = sub[1]} :
        SubSeq(s, i, i + Len(sub) - 1) = sub

\* C4 (receive order): the payloads of one Stream given to handle_recv are
\* in the order in which the peer's frames arrived, within a batch and
\* across batches: they are always a prefix of what the peer has sent.
C4_ReceiveOrder == \A id \in Ids : IsPrefix(Received(id), SentTo(id))

\* C5 (send order): as long as every write of a Stream was accepted whole,
\* the bytes written to its socket are a prefix of the frames of the
\* payloads queued on it, in queue() call order.
C5_SendOrder ==
    \A id \in Ids :
        ~hist.short[id] => IsPrefix(net[id].wire, QueuedBytes(id))

\* C6 (broadcast delivery): every payload queued on a connected Stream has
\* its whole frame written to the Stream's socket in the end, short writes
\* or not.  sendall() writes nothing but what tcpbox holds, so the end is
\* reached when tcpbox is empty: a connected Stream with an empty tcpbox has
\* written the whole frame of every payload that was queued on it.
C6_BroadcastDelivery ==
    \A id \in Ids :
        (Live(id) /\ st[id].tcpbox = <<>>) =>
            \A k \in 1..Len(hist.queued[id]) :
                Contains(net[id].wire, Frame(hist.queued[id][k]))

\* the bytes a pending-send queue holds, in the order sendall() takes them in:
\* the head is tcpbox[-1]
Unsent(box) == Concat(Reverse(box))

\* C29 (short write): a call that writes to a Stream's socket leaves in the
\* pending-send queue exactly the bytes it has not written: after a write
\* that accepted n of the m bytes of the head segment the head holds the
\* other m - n bytes, so the bytes written followed by the bytes pending are
\* the same before and after the call; no byte is written twice, none is
\* lost.
C29_ShortWriteResidual ==
    [][\A id \in Ids :
          (hist'.wrote[id] > hist.wrote[id] /\ exc' = "") =>
              net'[id].wire \o Unsent(st'[id].tcpbox)
                  = net[id].wire \o Unsent(st[id].tcpbox)]_vars

-----------------------------------------------------------------------------
(* The snapshot specification: a program fills two Snapshots, S0 (snap0) and
   S_new (snap1), entry by entry, and then takes S_new - S0. *)

SnapEntries ==
    {Entry("p", "A", port, t) : port \in {0, 1}, t \in 0..MaxSystime}

AddEntry ==
    /\ ~diff.done
    /\ \E e \in SnapEntries :
        \/ /\ Len(snap0) < MaxEntries
           /\ snap0' = add_entry(snap0, e)
           /\ UNCHANGED snap1
        \/ /\ Len(snap1) < MaxEntries
           /\ snap1' = add_entry(snap1, e)
           /\ UNCHANGED snap0
    /\ UNCHANGED <<diff, codecVars, serverVars, aggVars, roleVars>>

RemoveEntry ==
    /\ ~diff.done
    /\ \/ \E e \in EntrySet(snap0) :
            snap0' = remove_entry(snap0, e) /\ UNCHANGED snap1
       \/ \E e \in EntrySet(snap1) :
            snap1' = remove_entry(snap1, e) /\ UNCHANGED snap0
    /\ UNCHANGED <<diff, codecVars, serverVars, aggVars, roleVars>>

Sub ==
    /\ ~diff.done
    /\ diff' = [done |-> TRUE,
                add |-> snapshot_sub(snap1, snap0).add,
                remove |-> snapshot_sub(snap1, snap0).remove]
    /\ UNCHANGED <<snap0, snap1, codecVars, serverVars, aggVars, roleVars>>

SnapInit == ServerIdle /\ CodecIdle /\ SnapIdle /\ AggIdle /\ RoleIdle

SnapNext == AddEntry \/ RemoveEntry \/ Sub

SpecSnap == SnapInit /\ [][SnapNext]_vars

-----------------------------------------------------------------------------
(* The aggregator specification: an Aggregator gets batches of messages and
   connections from serve(), its program calls update_snapshot() as the main
   loop of aggregate.py does, and time passes. *)

PublisherNames == {"p", "q"}

\* the listener each publisher may advertise: two of them run on host A,
\* where Stream.listen() without an address names port 0
PublisherLocations ==
    [n \in PublisherNames |->
        IF n = "p" THEN {<<"A", 0>>} ELSE {<<"A", 0>>, <<"B", 0>>}]

\* what a peer may send at the time now
AggMessages(now) ==
    UNION {{Pulse(n, loc[1], loc[2], now) : loc \in PublisherLocations[n]} :
           n \in PublisherNames}
    \cup {Message(TRUE, "data"), Message(TRUE, "request_snapshot"),
          Message(FALSE, ""), Message(TRUE, "")}

Batches(now) == UNION {[1..k -> AggMessages(now)] : k \in 1..MaxBatch}

\* the publishers with a pulse among the pending ones
PulseNames(pulses) == {pulses[i].name : i \in 1..Len(pulses)}

\* a snapshot queued on a stream, with what was known when it was sent
Emitted(on, queued, heard, lapsed) ==
    [i \in 1..Len(queued) |->
        [on |-> on, snapshot |-> queued[i], heard |-> heard, lapsed |-> lapsed]]

AggRecv ==
    /\ agg.exc = ""
    /\ agghist.nrecv < MaxRecv
    /\ \E msgs \in Batches(clock) :
        /\ agg' = agg_handle_recv(agg, msgs, clock).a
        /\ agghist' =
              [agghist EXCEPT
                  !.heard = @ \cup PulseNames(recv_loop(agg, msgs, 1, FALSE).a.pulses),
                  !.fresh = @ \cup PulseNames(recv_loop(agg, msgs, 1, FALSE).a.pulses),
                  !.emitted = @ \o Emitted("request",
                      agg_handle_recv(agg, msgs, clock).queued,
                      agghist.heard
                          \cup PulseNames(recv_loop(agg, msgs, 1, FALSE).a.pulses),
                      agghist.lapsed),
                  !.last = "handle_recv",
                  !.nrecv = @ + 1]
    /\ UNCHANGED <<clock, codecVars, serverVars, snapVars, roleVars>>

AggAccept ==
    /\ agg.exc = ""
    /\ agghist.naccept < MaxAccept
    /\ agghist' =
          [agghist EXCEPT
              !.emitted = @ \o Emitted("accept", agg_handle_accept(agg).queued,
                                       agghist.heard, agghist.lapsed),
              !.last = "handle_accept",
              !.naccept = @ + 1]
    /\ agg' = agg_handle_accept(agg).a
    /\ UNCHANGED <<clock, codecVars, serverVars, snapVars, roleVars>>

AggUpdate ==
    /\ agg.exc = ""
    /\ agg' = update_snapshot(agg, clock)
    /\ agghist' = [agghist EXCEPT !.last = "update_snapshot"]
    /\ UNCHANGED <<clock, codecVars, serverVars, snapVars, roleVars>>

\* a minute passes; a publisher heard of that sent nothing in it has lapsed
Tick ==
    /\ clock < MaxClock
    /\ clock' = clock + 1
    /\ agghist' = [agghist EXCEPT !.lapsed = @ \cup (agghist.heard \ agghist.fresh),
                                  !.fresh = {},
                                  !.last = "tick"]
    /\ UNCHANGED <<agg, codecVars, serverVars, snapVars, roleVars>>

AggInit == ServerIdle /\ CodecIdle /\ SnapIdle /\ AggIdle /\ RoleIdle

AggNext == AggRecv \/ AggAccept \/ AggUpdate \/ Tick

SpecAgg == AggInit /\ [][AggNext]_vars

-----------------------------------------------------------------------------
(* Claims about Snapshot (snapshot.py) and Aggregator (pb2.py) *)

Location(e) == <<e.addr, e.port>>

\* no two entries of a list share (addr, port)
ListKeyed(entries) ==
    \A i, j \in 1..Len(entries) :
        i # j => Location(entries[i]) # Location(entries[j])

\* no two entries of the Aggregator's dict share (addr, port)
DictKeyed(entries) ==
    \A m, n \in DOMAIN entries :
        m # n => Location(entries[m]) # Location(entries[n])

\* C7 (snapshot key invariant): after any add_entry calls on a Snapshot, in
\* any systime order, and after any pulses applied to the Aggregator's
\* snapshot, no two entries share the same (addr, port).
C7_SnapshotKey ==
    ListKeyed(snap0) /\ ListKeyed(snap1) /\ DictKeyed(agg.entries)

\* C8 (diff law): the SnapshotDiff S_new - S0 has add = the entries of S_new
\* that are not in S0 and remove = the entries of S0 that are not in S_new,
\* so adding add to and removing remove from the entries of S0 gives the
\* entries of S_new.
C8_DiffLaw ==
    diff.done =>
        /\ diff.add = EntrySet(snap1) \ EntrySet(snap0)
        /\ diff.remove = EntrySet(snap0) \ EntrySet(snap1)
        /\ (EntrySet(snap0) \cup diff.add) \ diff.remove = EntrySet(snap1)

\* C9 (purge rule): after every batch handled by Aggregator.handle_recv,
\* whatever it holds, the Aggregator's snapshot has no entry whose systime is
\* more than 3 minutes before now.
C9_PurgeRule ==
    (agghist.last = "handle_recv" /\ agg.exc = "") =>
        \A n \in DOMAIN agg.entries : clock - agg.entries[n].systime <= PurgeAge

\* C10 (directory liveness): every snapshot the Aggregator sends, on accept
\* or on request, holds every publisher whose pulse it had received by then,
\* as long as no minute has passed without a pulse of that publisher.
C10_DirectoryLiveness ==
    \A i \in 1..Len(agghist.emitted) :
        \A n \in agghist.emitted[i].heard \ agghist.emitted[i].lapsed :
            n \in DOMAIN agghist.emitted[i].snapshot.entries

-----------------------------------------------------------------------------
(* The main loop of aggregate.py: agg.serve(timeout=5), time.sleep(5),
   agg.update_snapshot(), agg.dump(), for ever.  One serve() waits in
   select, accepts a connection if there is one and hands the batch of one
   readable stream to handle_recv; the listener is the first of
   Aggregator.streams, so the accept comes first. *)

MaxTime == 5

MaxServes == 2

MaxWait == 1

\* the addresses connections to the Aggregator come from
PeerAddrs == {"A", "X"}

\* a 'data' payload
Data(name) == [Message(TRUE, "data") EXCEPT !.name = name]

\* what a peer may send at the time now: the pulse of publisher p on host A,
\* sent now or delayed since time 0, data, a request and a JSON object
\* without 'event'
LoopMessages(now) ==
    {Pulse("p", "A", 0, t) : t \in {0, now}}
    \cup {Data("d1"), Data("d2"), Message(TRUE, "request_snapshot"),
          Message(TRUE, "")}

LoopBatches(now) == UNION {[1..k -> LoopMessages(now)] : k \in 0..MaxBatch}

IsPulse(m) == m.json /\ m.event = "pulse"

\* the time of the latest pulse of each publisher, a batch counted in
PulsedBy(pulsed, msgs) ==
    [n \in DOMAIN pulsed |->
        LET times == {msgs[i].systime :
                        i \in {j \in 1..Len(msgs) :
                                  IsPulse(msgs[j]) /\ msgs[j].name = n}}
        IN  IF times = {} THEN pulsed[n]
            ELSE Max(pulsed[n], CHOOSE t \in times : \A u \in times : u <= t)]

\* the snapshots queued by one handler at the time at
Sent(on, queued, at, pulsed) ==
    [i \in 1..Len(queued) |->
        [on |-> on, at |-> at, snapshot |-> queued[i], pulsed |-> pulsed]]

\* Server.serve() of the Aggregator: handle_accept for the connection
\* accepted, if any, then handle_recv for the batch msgs, if any
LoopServe ==
    /\ pc = "serve"
    /\ agg.exc = ""
    /\ \E wait \in 0..MaxWait, accepted \in BOOLEAN, peer \in PeerAddrs :
        /\ clock + wait <= MaxTime
        /\ accepted => loophist.naccept < MaxAccept
        /\ \E msgs \in LoopBatches(clock + wait) :
            /\ msgs # <<>> => loophist.nrecv < MaxRecv
            /\ (\A i \in 1..Len(msgs) : ~IsPulse(msgs[i])) => peer = "A"
            /\ clock' = clock + wait
            /\ agg' = IF msgs = <<>> THEN agg
                      ELSE agg_handle_recv(agg, msgs, clock + wait).a
            /\ loophist' =
                  [loophist EXCEPT
                      !.pulsed = PulsedBy(@, msgs),
                      !.via = @ \cup {<<msgs[i].name, peer>> :
                                         i \in {j \in 1..Len(msgs) : IsPulse(msgs[j])}},
                      !.carried = @ \cup {<<msgs[i].name, msgs[i].addr, msgs[i].port>> :
                                             i \in {j \in 1..Len(msgs) : IsPulse(msgs[j])}},
                      !.got = @ \o SelectSeq(msgs, IsData),
                      !.emitted =
                          @ \o (IF accepted
                                THEN Sent("accept", agg_handle_accept(agg).queued,
                                          clock + wait, loophist.pulsed)
                                ELSE <<>>)
                            \o (IF msgs = <<>> THEN <<>>
                                ELSE Sent("request",
                                          agg_handle_recv(agg, msgs, clock + wait).queued,
                                          clock + wait, PulsedBy(loophist.pulsed, msgs))),
                      !.nrecv = IF msgs = <<>> THEN @ ELSE @ + 1,
                      !.naccept = IF accepted THEN @ + 1 ELSE @]
    /\ pc' = "sleep"
    /\ UNCHANGED <<logfile, agghist, codecVars, serverVars, snapVars, pubsubVars>>

\* time.sleep(5)
LoopSleep ==
    /\ pc = "sleep"
    /\ agg.exc = ""
    /\ \E wait \in 0..MaxWait :
        /\ clock + wait <= MaxTime
        /\ clock' = clock + wait
    /\ pc' = "update"
    /\ UNCHANGED <<agg, logfile, loophist, agghist, codecVars, serverVars, snapVars,
                 pubsubVars>>

\* agg.update_snapshot()
LoopUpdate ==
    /\ pc = "update"
    /\ agg' = update_snapshot(agg, clock)
    /\ pc' = "dump"
    /\ UNCHANGED <<clock, logfile, loophist, agghist, codecVars, serverVars, snapVars,
                 pubsubVars>>

\* agg.dump()
LoopDump ==
    /\ pc = "dump"
    /\ agg' = dump(agg, logfile).a
    /\ logfile' = dump(agg, logfile).file
    /\ loophist' = [loophist EXCEPT
                       !.before = loophist.got,
                       !.wrote = SubSeq(dump(agg, logfile).file,
                                        Len(logfile) + 1,
                                        Len(dump(agg, logfile).file)),
                       !.got = <<>>]
    /\ pc' = "serve"
    /\ UNCHANGED <<clock, agghist, codecVars, serverVars, snapVars, pubsubVars>>

LoopInit == ServerIdle /\ CodecIdle /\ SnapIdle /\ AggIdle /\ RoleIdle

LoopNext == LoopServe \/ LoopSleep \/ LoopUpdate \/ LoopDump

SpecLoop == LoopInit /\ [][LoopNext]_vars

-----------------------------------------------------------------------------
(* Claims about the Aggregator in its main loop *)

Count(seq, x) == Cardinality({i \in 1..Len(seq) : seq[i] = x})

C20_DataLogging ==
    pc = "serve" =>
        /\ agg.data = <<>>
        /\ Len(loophist.wrote) = Len(loophist.before)
        /\ \A i \in 1..Len(loophist.before) :
              Count(loophist.wrote, loophist.before[i])
                  = Count(loophist.before, loophist.before[i])
        /\ \A i \in 1..Len(logfile) : logfile[i].event = "data"

\* a dump after a batch of two different 'data' payloads and one after a
\* batch with a pulse or a request beside the data
C20_Witness ==
    /\ pc = "serve"
    /\ Len(loophist.before) = 2
    /\ loophist.before[1] # loophist.before[2]
    /\ Len(logfile) >= 3
    /\ loophist.emitted # <<>>

-----------------------------------------------------------------------------
(* The connection scenario: the program connects to peers that listen or
   not, listens itself, queues payloads and serves, while the peers start
   and stop listening, connect, close and reset connections. *)

ConnInit ==
    /\ streams = <<>>
    /\ connecting = <<>>
    /\ st = <<>>
    /\ net = <<>>
    /\ reach \in SUBSET RemoteLocations
    /\ hist = [queued |-> <<>>, short |-> <<>>, sent |-> <<>>, recv |-> <<>>,
               wrote |-> <<>>, again |-> <<>>, nshort |-> <<>>, accepts |-> <<>>,
               nqueue |-> 0, nsent |-> 0, ncongest |-> 0]
    /\ exc = ""
    /\ CodecIdle
    /\ SnapIdle
    /\ AggIdle
    /\ RoleIdle

\* the program queues one short payload
QueueShort == QueueMsg(<<"a">>)

ConnNext ==
    \/ AddListener \/ AddConnection \/ QueueShort \/ Serve
    \/ PeerListen \/ PeerConnect \/ PeerClose \/ PeerReset

SpecConn == ConnInit /\ [][ConnNext]_vars

\* The reconnect scenario: the program connects to peers that accept,
\* queues and serves, while send buffers fill up and connections are reset.
ReconnNext ==
    \/ AddConnection \/ QueueShort \/ Serve \/ PeerClose \/ PeerReset \/ Congest

SpecReconn == SendInit /\ [][ReconnNext]_vars

-----------------------------------------------------------------------------
(* Claims about connections, checked under SpecConn and SpecReconn *)

\* C14 (retry every tick): in a serve() call every Stream that is on the
\* retry list when the call starts has connect() attempted, so every one
\* whose peer accepts connections is off the list when the call is over.
C14_RetryEveryTick ==
    [][Serve =>
          \A i \in 1..Len(connecting) :
              st[connecting[i]].remote_location \in reach
                  => ~InList(connecting', connecting[i])]_vars

\* the Streams the serve() call that starts in this state hands to select,
\* and the world at that moment
PollSet == serve_connect_loop(World, streams, 1)

\* C34 (poll set): the list of Streams serve() passes to select holds no
\* Stream whose status is closed and none without a socket, whatever the
\* retry list holds and however the connect() attempts end.
C34_PollSet ==
    (exc = "" /\ PollSet.w.exc = "") =>
        \A i \in 1..Len(PollSet.poll) :
            /\ PollSet.w.st[PollSet.poll[i]].status # "closed"
            /\ PollSet.w.st[PollSet.poll[i]].sock

\* C37 (closed is terminal), as stated: once the status of a Stream is
\* closed, no call of the program changes the status of that Stream again.
C37_ClosedTerminal ==
    [][\A id \in Ids : st[id].status = "closed" => st'[id].status = "closed"]_vars

\* C37 (closed is terminal), amended: a closed Stream stays closed, but for
\* a connect-role Stream on the retry list whose peer accepts connections:
\* the connect() of serve() makes that Stream connected again, with a new
\* socket.
C37_ClosedUntilReconnect ==
    [][\A id \in Ids :
          st[id].status = "closed" =>
              \/ st'[id].status = "closed"
              \/ /\ st[id].type = "connect"
                 /\ InList(connecting, id)
                 /\ st[id].remote_location \in reach
                 /\ st'[id].status = "connected"
                 /\ st'[id].sock]_vars

\* a connect-role Stream was closed and is connected again, and an
\* accept-role Stream is closed
C37_Witness ==
    /\ \E id \in Ids :
        /\ st[id].type = "connect" /\ hist.again[id]
        /\ st[id].status = "connected" /\ st[id].errno # "None"
    /\ \E id \in Ids : st[id].type = "accept" /\ st[id].status = "closed"

\* C15 (close handling): a Stream that becomes closed during a serve() call
\* has had handle_close once when the call is over: a connect-role Stream is
\* once on the retry list, still registered and has its remote location; an
\* accept-role or listen-role Stream is not registered any more.
C15_CloseHandling ==
    [][\A id \in Ids :
          (st[id].status # "closed" /\ st'[id].status = "closed") =>
              IF st[id].type = "connect"
              THEN /\ InList(streams', id)
                   /\ Cardinality({i \in 1..Len(connecting') : connecting'[i] = id}) = 1
                   /\ st'[id].remote_location = st[id].remote_location
              ELSE ~InList(streams', id)]_vars

\* a connect-role Stream and an accept-role Stream that were closed by a
\* serve() call
C15_Witness ==
    /\ exc = ""
    /\ \E id \in Ids :
           /\ st[id].type = "connect" /\ st[id].status = "closed"
           /\ hist.wrote[id] > 0 /\ InList(connecting, id)
    /\ \E id \in Ids :
           st[id].type = "accept" /\ st[id].status = "closed" /\ ~InList(streams, id)

\* C16 (queue retention across reconnect): when a connect-role Stream has
\* reconnected, every byte of the frames queued on it that no socket of the
\* Stream has taken is pending in its send queue.
C16_QueueRetention ==
    \A id \in Ids :
        (st[id].type = "connect" /\ hist.again[id]) =>
            hist.wrote[id] + Len(Concat(st[id].tcpbox)) = Len(QueuedBytes(id))

C24_NoErrorEscapes == exc = ""

-----------------------------------------------------------------------------
(* The publisher specification: a Publisher is constructed, with a listener
   on a port the kernel chooses, and serves; the Aggregator it connects to
   may not listen yet.  The Aggregator gets the pulses the Publisher has
   written whole to its connection, and its program calls update_snapshot. *)

AggLocation == <<"A", 1>>

\* a Server just constructed, in a network where the locations r listen
NewServer(r) ==
    [streams |-> <<>>, connecting |-> <<>>, st |-> <<>>, net |-> <<>>,
     reach |-> r,
     hist |-> [queued |-> <<>>, short |-> <<>>, sent |-> <<>>, recv |-> <<>>,
               wrote |-> <<>>, again |-> <<>>, nshort |-> <<>>, accepts |-> <<>>,
               nqueue |-> 0, nsent |-> 0, ncongest |-> 0],
     exc |-> ""]

IsWorld(w) ==
    /\ streams = w.streams
    /\ connecting = w.connecting
    /\ st = w.st
    /\ net = w.net
    /\ reach = w.reach
    /\ hist = w.hist
    /\ exc = w.exc

PubInit ==
    /\ \E r \in SUBSET {AggLocation}, ephemeral \in EphemeralPorts :
           IsWorld(PublisherInit(NewServer(r), AggLocation, ephemeral, "p", 0))
    /\ publisher = [name |-> "p", inbox |-> <<>>, t_last_pulse |-> 0]
    /\ subscriber = [aggregator |-> 0, snapshots |-> <<>>,
                     new_snapshot |-> FALSE, data |-> <<>>,
                     index |-> EmptyDict, initial_connect |-> FALSE]
    /\ rolehist = [pulses |-> <<pulse_dict(World, "p", 0)>>, delivered |-> {},
                   arrived |-> <<>>, narrived |-> 0, inbox |-> <<>>,
                   data |-> <<>>, queued |-> <<>>, nserve |-> 0]
    /\ pc = "serve"
    /\ logfile = <<>>
    /\ loophist = [emitted |-> <<>>, pulsed |-> [n \in {"p"} |-> None],
                   via |-> {}, carried |-> {}, got |-> <<>>, before |-> <<>>, wrote |-> <<>>, room |-> 0, start |-> 0,
                   nrecv |-> 0, naccept |-> 0]
    /\ CodecIdle
    /\ SnapIdle
    /\ AggIdle

\* Publisher.serve()
PubServe ==
    /\ exc = ""
    /\ rolehist.nserve < MaxServes
    /\ \E due \in BOOLEAN :
        /\ clock > publisher.t_last_pulse => due
        /\ SetWorld(pub_serve(World, publisher.name, clock, due))
        /\ publisher' = [publisher EXCEPT
                            !.t_last_pulse = IF due THEN clock ELSE @]
        /\ rolehist' = [rolehist EXCEPT
                           !.pulses = IF due
                                      THEN Append(@, pulse_dict(World, publisher.name, clock))
                                      ELSE @,
                           !.nserve = @ + 1]
    /\ UNCHANGED <<subscriber, loopVars, codecVars, snapVars, aggVars>>

\* the stream of the Publisher that is connected to the Aggregator
PubUplink == 1

\* Aggregator.serve(): a pulse whose frame the Publisher has written to
\* its connection comes in
PubDeliver ==
    /\ agg.exc = ""
    /\ \E i \in (1..Len(rolehist.pulses)) \ rolehist.delivered :
        /\ Contains(net[PubUplink].wire, Frame(json_dumps(rolehist.pulses[i])))
        /\ agg' = agg_handle_recv(agg, <<rolehist.pulses[i]>>, clock).a
        /\ rolehist' = [rolehist EXCEPT !.delivered = @ \cup {i}]
    /\ agghist' = [agghist EXCEPT !.last = "handle_recv"]
    /\ UNCHANGED <<clock, publisher, subscriber, loopVars, codecVars, serverVars,
                   snapVars>>

PubNext == PubServe \/ PubDeliver \/ AggUpdate \/ Tick \/ PeerListen

SpecPub == PubInit /\ [][PubNext]_vars

\* the port the Publisher's listen Stream is bound to
BoundPort(id) == net[id].port

\* C18 (pulse to snapshot): once the pulses of a Publisher with a listener
\* on a port chosen by the kernel have reached the Aggregator and are
\* applied, the Aggregator's snapshot has one entry for the publisher, and
\* the port of the entry is the port the Publisher's listen Stream is bound
\* to.
C18_PulseToSnapshot ==
    /\ \A n \in DOMAIN agg.entries :
          /\ n = publisher.name
          /\ \E id \in Ids :
                /\ st[id].status = "listening"
                /\ agg.entries[n].port = BoundPort(id)
    /\ (/\ rolehist.delivered # {}
        /\ agg.pulses = <<>>
        /\ \A i \in rolehist.delivered :
              clock - rolehist.pulses[i].systime <= PurgeAge)
           => publisher.name \in DOMAIN agg.entries

-----------------------------------------------------------------------------
(* The subscriber specification: a Subscriber is constructed and serves;
   in every serve() the snapshots that have arrived from the Aggregator
   since the last one are handed to handle_recv, as Stream.get() returns
   them.  Every publisher accepts connections and no connection closes. *)

MaxSubServes == 3

MaxArrivals == 3

SubLocations == {<<"B", 2>>, <<"C", 3>>, <<"D", 4>>}

\* the snapshots with at most two publishers, p alone or p and q
SubSnapshots ==
    {SnapshotMsg(EmptyDict)}
    \cup {SnapshotMsg([n \in {"p"} |->
                         [systime |-> 0, pid |-> 1, addr |-> l[1], port |-> l[2]]]) :
          l \in SubLocations}
    \cup {SnapshotMsg([n \in {"p", "q"} |->
                         IF n = "p"
                         THEN [systime |-> 0, pid |-> 1, addr |-> l[1], port |-> l[2]]
                         ELSE [systime |-> 0, pid |-> 1, addr |-> m[1], port |-> m[2]]]) :
          l \in SubLocations, m \in SubLocations}

SubBatches == UNION {[1..k -> SubSnapshots] : k \in 0..MaxBatch}

SubInit ==
    /\ IsWorld(SubscriberInit(NewServer(SubLocations \cup {AggLocation}),
                              AggLocation).w)
    /\ subscriber = SubscriberInit(NewServer(SubLocations \cup {AggLocation}),
                                   AggLocation).s
    /\ publisher = [name |-> "p", inbox |-> <<>>, t_last_pulse |-> 0]
    /\ rolehist = [pulses |-> <<>>, delivered |-> {}, arrived |-> <<>>,
                   narrived |-> 0, inbox |-> <<>>, data |-> <<>>, queued |-> <<>>, nserve |-> 0]
    /\ pc = "serve"
    /\ logfile = <<>>
    /\ loophist = [emitted |-> <<>>, pulsed |-> [n \in {"p"} |-> None],
                   via |-> {}, carried |-> {}, got |-> <<>>, before |-> <<>>, wrote |-> <<>>, room |-> 0, start |-> 0,
                   nrecv |-> 0, naccept |-> 0]
    /\ CodecIdle
    /\ SnapIdle
    /\ AggIdle

\* Subscriber.serve(); arrived are the snapshots in the order of arrival,
\* and Stream.get() returns the payloads of one recvall() last first
SetSubscriber(x) == SetWorld(x.w) /\ subscriber' = x.s

SubServe ==
    /\ exc = ""
    /\ rolehist.nserve < MaxSubServes
    /\ \E arrived \in SubBatches :
        /\ rolehist.narrived + Len(arrived) <= MaxArrivals
        /\ SetSubscriber(sub_serve([w |-> World, s |-> subscriber],
                                   Reverse(arrived)))
        /\ rolehist' = [rolehist EXCEPT
                           !.arrived = IF arrived = <<>> THEN @
                                       ELSE <<arrived[Len(arrived)]>>,
                           !.narrived = @ + Len(arrived),
                           !.nserve = @ + 1]
    /\ UNCHANGED <<publisher, loopVars, codecVars, snapVars, aggVars>>

SubNext == SubServe

SpecSub == SubInit /\ [][SubNext]_vars

-----------------------------------------------------------------------------
(* Claims about the Subscriber, checked under SpecSub *)

\* the remote locations of the registered Streams but the one to the
\* Aggregator
FollowedLocations ==
    {st[streams[i]].remote_location :
        i \in {j \in 1..Len(streams) : streams[j] # subscriber.aggregator}}

SnapshotLocations(m) ==
    {<<m.entries[n].addr, m.entries[n].port>> : n \in DOMAIN m.entries}

\* C12 (reconnect idempotence): after any add_connection calls and any
\* snapshots applied by a Subscriber, no two registered Streams have the
\* same remote location.
C12_ReconnectIdempotence ==
    \A i, j \in 1..Len(streams) :
        i # j => st[streams[i]].remote_location # st[streams[j]].remote_location

\* C13 (subscriber follows the directory): when the Subscriber has processed
\* the snapshots it received, its Streams other than the one to the
\* Aggregator go to the locations of the snapshot the Aggregator sent last,
\* however many snapshots arrived between two serve() calls.
C13_FollowsDirectory ==
    (exc = "" /\ rolehist.arrived # <<>> /\ ~subscriber.new_snapshot) =>
        FollowedLocations = SnapshotLocations(rolehist.arrived[1])

-----------------------------------------------------------------------------
(* The inbox specification: batches of payloads are handed to
   Publisher.handle_recv, and batches of 'data' payloads or of snapshots to
   Subscriber.handle_recv. *)

MaxInbox == 130

MaxData == 514

\* the payloads number from + 1 .. from + k, each the digits of its number
Numbered(from, k) == [i \in 1..k |-> str(from + i)]

\* 'data' messages number from + 1 .. from + k
NumberedData(from, k) ==
    [i \in 1..k |-> [Message(TRUE, "data") EXCEPT !.systime = from + i]]

PubRecv ==
    /\ \E k \in {MaxInbox \div 2 - 1, MaxInbox \div 2} :
        /\ Len(rolehist.inbox) + k <= MaxInbox
        /\ publisher' =
              [publisher EXCEPT
                  !.inbox = pub_handle_recv(@, Numbered(Len(rolehist.inbox), k))]
        /\ rolehist' = [rolehist EXCEPT
                           !.inbox = @ \o Numbered(Len(rolehist.inbox), k)]
    /\ UNCHANGED <<subscriber, loopVars, codecVars, serverVars, snapVars, aggVars>>

SubRecvData ==
    /\ exc = ""
    /\ \E k \in {MaxData \div 4, MaxData \div 4 + 1} :
        /\ Len(rolehist.data) + k <= MaxData
        /\ SetSubscriber(sub_handle_recv([w |-> World, s |-> subscriber],
                                         NumberedData(Len(rolehist.data), k)))
        /\ rolehist' = [rolehist EXCEPT
                           !.data = @ \o NumberedData(Len(rolehist.data), k)]
    /\ UNCHANGED <<publisher, loopVars, codecVars, snapVars, aggVars>>

SubRecvSnapshots ==
    /\ exc = ""
    /\ \E k \in {MaxInbox \div 2 - 1, MaxInbox \div 2} :
        /\ rolehist.narrived + k <= MaxInbox
        /\ SetSubscriber(sub_handle_recv([w |-> World, s |-> subscriber],
                                         [i \in 1..k |-> SnapshotMsg(EmptyDict)]))
        /\ rolehist' = [rolehist EXCEPT !.narrived = @ + k]
    /\ UNCHANGED <<publisher, loopVars, codecVars, snapVars, aggVars>>

InboxNext == PubRecv \/ SubRecvData \/ SubRecvSnapshots

SpecInbox == SubInit /\ [][InboxNext]_vars

-----------------------------------------------------------------------------
(* The log specification: an Aggregator gets batches with 'data' payloads
   and its program calls dump(), on a disk that may run full. *)

MaxDisk == 4

\* the rotation threshold of the log file, in frames
RotationThreshold == 1

LogMessages ==
    {Data("d1"), Data("d2"), Data("d3"), Message(TRUE, "request_snapshot")}

LogBatches == UNION {[1..k -> LogMessages] : k \in 1..MaxBatch}

LogInit ==
    /\ ServerIdle /\ CodecIdle /\ SnapIdle /\ AggIdle
    /\ publisher = [name |-> "p", inbox |-> <<>>, t_last_pulse |-> 0]
    /\ subscriber = [aggregator |-> 0, snapshots |-> <<>>,
                     new_snapshot |-> FALSE, data |-> <<>>,
                     index |-> EmptyDict, initial_connect |-> FALSE]
    /\ rolehist = [pulses |-> <<>>, delivered |-> {}, arrived |-> <<>>,
                   narrived |-> 0, inbox |-> <<>>, data |-> <<>>, queued |-> <<>>, nserve |-> 0]
    /\ pc = "serve"
    /\ logfile = <<>>
    /\ \E room \in 0..MaxDisk :
        loophist = [emitted |-> <<>>, pulsed |-> [n \in {"p"} |-> None],
                    via |-> {}, carried |-> {}, got |-> <<>>, before |-> <<>>,
                    wrote |-> <<>>, room |-> room, start |-> 0,
                    nrecv |-> 0, naccept |-> 0]

\* Aggregator.handle_recv with a batch
LogRecv ==
    /\ agg.exc = ""
    /\ loophist.nrecv < MaxRecv
    /\ \E msgs \in LogBatches :
        /\ agg' = agg_handle_recv(agg, msgs, clock).a
        /\ loophist' = [loophist EXCEPT !.got = @ \o SelectSeq(msgs, IsData),
                                        !.nrecv = @ + 1]
    /\ UNCHANGED <<clock, agghist, pc, logfile, pubsubVars, codecVars, serverVars,
                   snapVars>>

\* agg.dump()
LogDump ==
    /\ agg.exc = ""
    /\ agg' = dump_room(agg, logfile, loophist.room).a
    /\ logfile' = dump_room(agg, logfile, loophist.room).file
    /\ loophist' = [loophist EXCEPT
                       !.start = Len(logfile),
                       !.before = Reverse(agg.data),
                       !.room = @ - (Len(dump_room(agg, logfile, loophist.room).file)
                                     - Len(logfile))]
    /\ UNCHANGED <<clock, agghist, pc, pubsubVars, codecVars, serverVars, snapVars>>

LogNext == LogRecv \/ LogDump

SpecLog == LogInit /\ [][LogNext]_vars

\* C21 (log failure keeps the data): when a file write has failed during
\* dump(), the failure is reported to the caller and every 'data' frame
\* received that is not in the file is still in the data buffer.
C21_LogFailureKeepsData ==
    agg.exc = "IOError" =>
        \A i \in 1..Len(loophist.got) :
            Count(loophist.got, loophist.got[i])
                <= Count(logfile, loophist.got[i]) + Count(agg.data, loophist.got[i])

\* C22 (log rotation): when the log file is larger than the rotation
\* threshold at the start of a dump() call, the file is rotated before the
\* frames are appended, so afterwards it holds the frames of that call only.
C22_LogRotation ==
    loophist.start > RotationThreshold => Len(logfile) <= Len(loophist.before)

-----------------------------------------------------------------------------
(* The oversized prefix specification: a fresh Decoder is fed, in chunks of
   any sizes, a stream that starts with a length prefix of more than
   max_size_digits digits. *)

\* digits beyond max_size_digits in a prefix
MaxExtraDigits == 2

\* prefixes of more than 9 digits: zeros and one other digit
OversizedPrefixes ==
    UNION {{[i \in 1..n |-> IF i = p THEN d ELSE "0"] : p \in 1..n, d \in {"1", "2"}} :
           n \in (max_size_digits + 1)..(max_size_digits + MaxExtraDigits)}

\* what follows the colon of the prefix
OversizedBodies == {<<"x", ",">>, <<"x", "y", ",">>, <<"x", ",", "y", ",">>}

OversizedInputs ==
    {[garbage |-> <<>>, payloads |-> <<>>, bytes |-> p \o <<":">> \o b] :
        p \in OversizedPrefixes, b \in OversizedBodies}

OversizeInit ==
    /\ ServerIdle
    /\ SnapIdle
    /\ AggIdle
    /\ RoleIdle
    /\ dec = DecoderInit
    /\ input \in OversizedInputs
    /\ fed = 0
    /\ split = FALSE

SpecOversize == OversizeInit /\ [][CodecNext]_vars

\* C23 (oversized prefix): when the bytes fed start with a length prefix of
\* more than 9 digits, the Decoder decodes no payload with a part of those
\* digits taken as the length (it fails with MESSAGE_TOO_LARGE).
C23_OversizedPrefix ==
    input \in OversizedInputs => Payloads(dec.msg) = <<>>

-----------------------------------------------------------------------------
(* The bad payload specification: batches that hold payloads that are not
   JSON, decoder reports, JSON without 'event' and unknown events, besides
   good ones, are handed to Aggregator.handle_recv and to
   Subscriber.handle_recv. *)

\* a report of the Decoder, a negative integer: json.loads raises TypeError
\* on it, as it raises ValueError on a payload that is not JSON
Report == [Message(FALSE, "") EXCEPT !.name = "-3"]

DropMessages ==
    {Pulse("p", "A", 0, 0), Data("d1"), Message(TRUE, "request_snapshot"),
     Message(FALSE, ""), Report, Message(TRUE, ""), Message(TRUE, "other")}

DropBatches == UNION {[1..k -> DropMessages] : k \in 1..MaxBatch}

DropSnapshots ==
    {SnapshotMsg(EmptyDict), [SnapshotMsg(EmptyDict) EXCEPT !.event = "data"],
     [SnapshotMsg(EmptyDict) EXCEPT !.json = FALSE, !.event = ""],
     [SnapshotMsg(EmptyDict) EXCEPT !.event = ""],
     [SnapshotMsg(EmptyDict) EXCEPT !.event = "other"]}

DropSubBatches == UNION {[1..k -> DropSnapshots] : k \in 1..MaxBatch}

\* the payloads the Aggregator, and the Subscriber, know what to do with
AggKnown(m) == m.json /\ m.event \in {"data", "pulse", "request_snapshot"}

SubKnown(m) == m.json /\ m.event \in {"data", "snapshot"}

\* Aggregator.handle_recv(stream, msgs)
DropAggRecv(msgs) ==
    /\ agg.exc = ""
    /\ exc = ""
    /\ rolehist.nserve < MaxRecv
    /\ agg' = agg_handle_recv(agg, msgs, clock).a
    /\ rolehist' = [rolehist EXCEPT
                       !.arrived = msgs,
                       !.queued = agg_handle_recv(agg, msgs, clock).queued,
                       !.nserve = @ + 1]
    /\ UNCHANGED <<clock, agghist, publisher, subscriber, loopVars, codecVars,
                   serverVars, snapVars>>

\* Subscriber.handle_recv(stream, msgs)
DropSubRecv(msgs) ==
    /\ agg.exc = ""
    /\ exc = ""
    /\ rolehist.nserve < MaxRecv
    /\ SetSubscriber(sub_handle_recv([w |-> World, s |-> subscriber], msgs))
    /\ rolehist' = [rolehist EXCEPT !.arrived = msgs, !.queued = <<>>,
                                    !.nserve = @ + 1]
    /\ UNCHANGED <<publisher, loopVars, codecVars, snapVars, aggVars>>

DropAgg == \E msgs \in DropBatches : DropAggRecv(msgs)

DropSub == \E msgs \in DropSubBatches : DropSubRecv(msgs)

DropNext == DropAgg \/ DropSub

SpecDrop == SubInit /\ [][DropNext]_vars

\* C25 (bad payloads are dropped): a batch given to handle_recv of the
\* Aggregator or of the Subscriber that holds payloads that are not JSON,
\* decoder reports, JSON without 'event' or unknown events is handled without
\* an error, and leaves the state (snapshot, pending pulses, data buffer,
\* send queue) that the batch without those payloads leaves.
C25_BadPayloadsDropped ==
    [][/\ \A msgs \in DropBatches :
             DropAggRecv(msgs) =>
                 /\ agg'.exc = ""
                 /\ agg' = agg_handle_recv(agg, SelectSeq(msgs, AggKnown), clock).a
                 /\ rolehist'.queued
                        = agg_handle_recv(agg, SelectSeq(msgs, AggKnown), clock).queued
       /\ \A msgs \in DropSubBatches :
             DropSubRecv(msgs) =>
                 /\ exc' = ""
                 /\ subscriber'
                        = sub_handle_recv([w |-> World, s |-> subscriber],
                                          SelectSeq(msgs, SubKnown)).s]_vars

-----------------------------------------------------------------------------
(* The request specification: an Aggregator gets batches of pulses of
   publisher p, stamped with the time they arrive at, data and requests,
   its program may call update_snapshot(), and time passes. *)

ReqMessages(now) ==
    {Pulse("p", "A", 0, now), Data("d1"), Message(TRUE, "request_snapshot")}

ReqBatches(now) == UNION {[1..k -> ReqMessages(now)] : k \in 1..MaxBatch}

IsRequest(m) == m.json /\ m.event = "request_snapshot"

\* Aggregator.handle_recv(stream, msgs)
ReqRecv(msgs) ==
    /\ agg.exc = ""
    /\ rolehist.nserve < MaxRecv
    /\ agg' = agg_handle_recv(agg, msgs, clock).a
    /\ rolehist' = [rolehist EXCEPT
                       !.arrived = msgs,
                       !.queued = agg_handle_recv(agg, msgs, clock).queued,
                       !.nserve = @ + 1]
    /\ loophist' = [loophist EXCEPT !.pulsed = PulsedBy(@, msgs)]
    /\ agghist' = [agghist EXCEPT !.last = "handle_recv"]
    /\ UNCHANGED <<clock, publisher, subscriber, pc, logfile, codecVars,
                   serverVars, snapVars>>

ReqAgg == \E msgs \in ReqBatches(clock) : ReqRecv(msgs)

ReqNext == ReqAgg \/ AggUpdate \/ Tick

SpecReq == AggInit /\ [][ReqNext]_vars

\* the pulse at index i of the pending pulses is the one received last from
\* its publisher
LastPending(i) ==
    \A j \in (i + 1)..Len(agg.pulses) : agg.pulses[j].name # agg.pulses[i].name

\* C38 (newest pulse wins): when update_snapshot runs with several pulses of
\* one publisher pending, the entry of the publisher is that of the pulse
\* received last (unless it is older than the purge age); a pulse received
\* earlier never replaces it.
C38_NewestPulseWins ==
    [][AggUpdate =>
          \A i \in 1..Len(agg.pulses) :
              (LastPending(i) /\ clock - agg.pulses[i].systime <= PurgeAge) =>
                  /\ agg.pulses[i].name \in DOMAIN agg'.entries
                  /\ agg'.entries[agg.pulses[i].name].systime
                         = agg.pulses[i].systime]_vars

\* C26 (snapshot on request): when handle_recv has handled a batch with a
\* request_snapshot in it, wherever it stands, one snapshot is queued on the
\* requesting Stream, and it reflects every pulse received up to and
\* including that batch: the publisher is in it, with the systime of its
\* latest pulse, unless that pulse is more than 3 minutes old.
C26_SnapshotOnRequest ==
    (agghist.last = "handle_recv" /\ SelectSeq(rolehist.arrived, IsRequest) # <<>>) =>
        /\ Len(rolehist.queued) = 1
        /\ \A n \in DOMAIN loophist.pulsed :
              (loophist.pulsed[n] # None /\ clock - loophist.pulsed[n] <= PurgeAge) =>
                  /\ n \in DOMAIN rolehist.queued[1].entries
                  /\ rolehist.queued[1].entries[n].systime = loophist.pulsed[n]

-----------------------------------------------------------------------------
(* The heartbeat specification: a Publisher is constructed and its program
   calls serve() and sleeps, as daq0.py does; the time is in seconds.  The
   Aggregator may listen from the start or later. *)

\* the time the Publisher is constructed at, and the time the run ends at
BeatStart == 2

MaxBeatTime == 20

MaxBeats == 3

\* the seconds between two calls
BeatSteps == {1, 7, 8}

SetPublisher(x) == SetWorld(x.w) /\ publisher' = x.p

BeatInit ==
    /\ \E r \in SUBSET {AggLocation}, ephemeral \in EphemeralPorts :
        /\ IsWorld(publisher_new(NewServer(r), AggLocation, ephemeral, "p", BeatStart).w)
        /\ publisher = publisher_new(NewServer(r), AggLocation, ephemeral, "p", BeatStart).p
    /\ clock = BeatStart
    /\ agg = AggregatorInit(0)
    /\ agghist = [emitted |-> <<>>, heard |-> {}, fresh |-> {}, lapsed |-> {},
                  last |-> "init", nrecv |-> 0, naccept |-> 0]
    /\ subscriber = [aggregator |-> 0, snapshots |-> <<>>,
                     new_snapshot |-> FALSE, data |-> <<>>,
                     index |-> EmptyDict, initial_connect |-> FALSE]
    /\ rolehist = [pulses |-> <<>>, delivered |-> {}, arrived |-> <<>>,
                   narrived |-> 0, inbox |-> <<>>, data |-> <<>>, queued |-> <<>>, nserve |-> 0]
    /\ pc = "serve"
    /\ logfile = <<>>
    /\ loophist = [emitted |-> <<>>, pulsed |-> [n \in {"p"} |-> None],
                   via |-> {}, carried |-> {}, got |-> <<>>, before |-> <<>>,
                   wrote |-> <<>>, room |-> 0, start |-> 0,
                   nrecv |-> 0, naccept |-> 0]
    /\ CodecIdle
    /\ SnapIdle

\* pub.serve()
BeatServe ==
    /\ exc = ""
    /\ rolehist.nserve < MaxBeats
    /\ SetPublisher(publisher_serve([w |-> World, p |-> publisher], clock))
    /\ rolehist' = [rolehist EXCEPT !.nserve = @ + 1]
    /\ UNCHANGED <<subscriber, loopVars, codecVars, snapVars, aggVars>>

\* sleep()
BeatSleep ==
    /\ \E d \in BeatSteps :
        /\ clock + d <= MaxBeatTime
        /\ clock' = clock + d
    /\ UNCHANGED <<agg, agghist, roleVars, codecVars, serverVars, snapVars>>

BeatNext == BeatServe \/ BeatSleep \/ PeerListen

SpecBeat == BeatInit /\ [][BeatNext]_vars

\* the text of the pulse of the Publisher with the time t
PulseText(t) == json_dumps(pulse_dict(World, publisher.name, t))

\* C28 (heartbeat rule): Publisher.serve() queues a pulse exactly when more
\* than 15 s have passed since t_last_pulse; every pulse, the one queued at
\* construction too, sets t_last_pulse to the time it is queued at; and the
\* pulse is queued before the sends of the call, so that it leaves in the
\* same call when the connection to the Aggregator is up.
C28_HeartbeatRule ==
    [][/\ hist.queued[PubUplink][Len(hist.queued[PubUplink])]
              = PulseText(publisher.t_last_pulse)
       /\ BeatServe =>
             /\ Len(hist'.queued[PubUplink])
                    = Len(hist.queued[PubUplink])
                      + (IF clock - publisher.t_last_pulse > 15 THEN 1 ELSE 0)
             /\ publisher'.t_last_pulse
                    = (IF clock - publisher.t_last_pulse > 15 THEN clock
                       ELSE publisher.t_last_pulse)
             /\ (/\ clock - publisher.t_last_pulse > 15
                 /\ st'[PubUplink].status = "connected")
                    => Contains(net'[PubUplink].wire, Frame(PulseText(clock)))]_vars

\* a serve() call 16 s after the construction has queued the second pulse,
\* which has left, after a serve() call that queued none
C28_Witness ==
    /\ rolehist.nserve >= 2
    /\ Len(hist.queued[PubUplink]) = 2
    /\ publisher.t_last_pulse = BeatStart + PulseInterval + 1
    /\ Contains(net[PubUplink].wire, Frame(PulseText(publisher.t_last_pulse)))

-----------------------------------------------------------------------------
(* The sendall specification: the program uses its Streams as stream.py
   describes them, through queue() and sendall(), while the send buffers
   fill up, the peers read (between two calls and between two send() calls
   of one sendall()) and reset connections. *)

\* free bytes of a send buffer the peer is reading from, and the number of
\* reads of the peer during one run that fall between two send() calls
MaxDrain == 3

MaxDrainLen == 3

DrainSeqs == UNION {[1..n -> 1..MaxDrain] : n \in 0..MaxDrainLen}

\* stream.sendall()
SendallOn(id) ==
    /\ exc = ""
    /\ SetWorld(stream_sendall(World, id))
    /\ UNCHANGED <<codecVars, snapVars, aggVars, roleVars>>

Sendall == \E id \in Ids : Live(id) /\ SendallOn(id)

\* a send buffer has filled up to n free bytes, and the peer will read
\* during the program's sendall() calls
Throttle ==
    /\ \E id \in Ids, n \in 0..MaxDrain, d \in DrainSeqs :
        /\ Live(id) /\ net[id].peer = "open" /\ hist.ncongest < MaxCongest
        /\ net' = [net EXCEPT ![id].room = n, ![id].drain = d]
        /\ hist' = [hist EXCEPT !.ncongest = @ + 1]
    /\ UNCHANGED <<streams, connecting, st, reach, exc>>
    /\ UNCHANGED <<codecVars, snapVars, aggVars, roleVars>>

\* the program has connected one Stream to a peer
StopInit ==
    /\ \E loc \in RemoteLocations :
           IsWorld(add_connection(NewServer(RemoteLocations), loc))
    /\ CodecIdle
    /\ SnapIdle
    /\ AggIdle
    /\ RoleIdle

StopNext == Queue \/ Sendall \/ Throttle \/ Drain \/ PeerReset

SpecStop == StopInit /\ [][StopNext]_vars

\* the bytes a step has written to the socket of Stream id
Written(id) == SubSeq(net[id].wire', Len(net[id].wire) + 1, Len(net[id].wire'))

\* the segments a step has removed from the pending-send queue of Stream id,
\* in the order sendall() takes them in
Removed(id) ==
    Reverse(SubSeq(st[id].tcpbox, Len(st[id].tcpbox') + 1, Len(st[id].tcpbox)))

\* C30 (send_all stop conditions): a sendall() call makes at most 4 short
\* writes and ends with the queue empty, on would-block, on a socket error
\* or after the 4th short write; a call whose first write would block
\* leaves the status and the queue as they are; a call that meets another
\* socket error leaves the Stream closed; and every segment the call has
\* removed from the queue has been written in full by it.
C30_SendallStops ==
    [][\A id \in Ids : SendallOn(id) =>
          /\ hist'.nshort[id] - hist.nshort[id] <= 4
          /\ \/ st'[id].tcpbox = <<>>
             \/ st'[id].errno = "EWOULDBLOCK" /\ net'[id].room = 0
             \/ st'[id].status = "closed"
             \/ hist'.nshort[id] - hist.nshort[id] = 4
          /\ (net[id].room = 0 /\ net[id].peer = "open" /\ st[id].tcpbox # <<>>) =>
                /\ st'[id].errno = "EWOULDBLOCK"
                /\ st'[id].status = st[id].status
                /\ st'[id].tcpbox = st[id].tcpbox
          /\ net[id].peer = "open" => st'[id].status = st[id].status
          /\ (net[id].peer = "rst" /\ st[id].tcpbox # <<>>) =>
                /\ st'[id].status = "closed"
                /\ st'[id].tcpbox = st[id].tcpbox
          /\ Len(st'[id].tcpbox) <= Len(st[id].tcpbox)
          /\ IsPrefix(Concat(Removed(id)), Written(id))]_vars

-----------------------------------------------------------------------------
(* The noisy stream specification: a fresh Decoder is fed, in chunks of any
   sizes, an arbitrary byte stream of digits, colons, commas and other
   bytes. *)

MaxStream == 5

StreamAlphabet == {"1", "2", "x", ":", ","}

StreamInputs ==
    {[garbage |-> <<>>, payloads |-> <<>>, bytes |-> s] :
        s \in Strings(StreamAlphabet, MaxStream) \ {<<>>}}

StreamInit ==
    /\ ServerIdle
    /\ SnapIdle
    /\ AggIdle
    /\ RoleIdle
    /\ dec = DecoderInit
    /\ input \in StreamInputs
    /\ fed = 0
    /\ split = FALSE

SpecStream == StreamInit /\ [][CodecNext]_vars

\* a length prefix of value n ends right before the 0-based position j of s
PrefixBefore(s, j, n) ==
    \E k \in 1..max_size_digits :
        /\ j - k >= 0
        /\ \A d \in (j - k)..(j - 1) : IsDigit(At(s, d))
        /\ int(Slice(s, j - k, j)) = n

\* the payload p stands in s between the colon of a prefix of value Len(p),
\* with at most one non-digit byte between the digits and the colon, and a
\* comma
FramedIn(p, s) ==
    \E i \in 0..(Len(s) - 1) :
        /\ At(s, i) = ":"
        /\ i + 1 + Len(p) < Len(s)
        /\ Slice(s, i + 1, i + 1 + Len(p)) = p
        /\ At(s, i + 1 + Len(p)) = ","
        /\ \/ PrefixBefore(s, i, Len(p))
           \/ i >= 1 /\ ~IsDigit(At(s, i - 1)) /\ PrefixBefore(s, i - 1, Len(p))

\* C31 (decoded payload position): every payload the Decoder emits equals
\* the L bytes that lie between the colon of a length prefix of value L and
\* the terminating comma in the bytes fed, also when a non-digit byte stands
\* between the digits of the prefix and the colon.
C31_PayloadPosition ==
    \A k \in 1..Len(Payloads(dec.msg)) :
        FramedIn(Payloads(dec.msg)[k], Slice(input.bytes, 0, fed))

-----------------------------------------------------------------------------
(* The terminator mismatch specification: a fresh Decoder is fed, in chunks
   of any sizes, a message whose terminator is not a comma (a prefix, L
   bytes and another byte) and the bytes that follow it. *)

\* the payloads of the messages whose terminator is wrong
MismatchBodies == {<<>>, <<"a">>, <<"a", "b">>, <<",", "a">>}

\* the bytes that stand where the terminator is expected, and after it
MismatchTails ==
    {<<"x">>, <<"x", "1", ":", "b", ",">>, <<"1", ":", "b", ",">>,
     <<"0", ":", ",">>, <<"x", "x">>, <<":", "1", ":", "b", ",">>}

\* garbage holds the attempted message: the prefix and the L bytes
MismatchInputs ==
    {[garbage |-> str(Len(b)) \o <<":">> \o b, payloads |-> <<>>,
      bytes |-> str(Len(b)) \o <<":">> \o b \o t] :
        b \in MismatchBodies, t \in MismatchTails}

MismatchInit ==
    /\ ServerIdle
    /\ SnapIdle
    /\ AggIdle
    /\ RoleIdle
    /\ dec = DecoderInit
    /\ input \in MismatchInputs
    /\ fed = 0
    /\ split = FALSE

SpecMismatch == MismatchInit /\ [][CodecNext]_vars

\* the decoder that starts afresh at the byte that stands where the
\* terminator of the attempted message was expected
Resumed == feed(DecoderInit, DelPrefix(input.bytes, Len(input.garbage)))

\* C32 (terminator mismatch): when the byte at position prefix_end + L is
\* not ',', the Decoder emits no payload for the attempted message, reports
\* prefix + L bytes as discarded and removes exactly these bytes from its
\* buffer: once the whole stream is fed, its events are that report followed
\* by the events of decoding from the byte that stood where the terminator
\* was expected, and its buffer is what that decoding leaves.
C32_TerminatorMismatch ==
    (input \in MismatchInputs /\ fed = Len(input.bytes)) =>
        /\ dec.msg = <<Bad(0 - Len(input.garbage))>> \o Resumed.msg
        /\ dec.buf = Resumed.buf

-----------------------------------------------------------------------------
(* The no prefix specification: a fresh Decoder is fed, in chunks of any
   sizes, bytes that never hold a valid prefix: no digit at all, or no
   colon at all. *)

\* bytes fed in one run
MaxNoise == 11

NoPrefixInputs ==
    {[garbage |-> s, payloads |-> <<>>, bytes |-> s] :
        s \in [1..MaxNoise -> {"x", ":"}] \cup [1..MaxNoise -> {"1", "x"}]}

NoPrefixInit ==
    /\ ServerIdle
    /\ SnapIdle
    /\ AggIdle
    /\ RoleIdle
    /\ dec = DecoderInit
    /\ input \in NoPrefixInputs
    /\ fed = 0
    /\ split = FALSE

SpecNoPrefix == NoPrefixInit /\ [][CodecNext]_vars

\* the lookahead of one scan of _seek_start: a prefix of max_size_digits
\* digits and its colon
LookaheadBound == max_size_digits + 1

\* C33 (bounded decoder state): when the bytes fed never hold a valid prefix
\* the Decoder keeps fewer buffered bytes than a fixed bound, the lookahead
\* of a scan, however many bytes are fed: it discards and reports the rest.
C33_BoundedBuffer ==
    input \in NoPrefixInputs => Len(dec.buf) < LookaheadBound

-----------------------------------------------------------------------------
(* The removal specification: the connection scenario with a program that
   also removes connections. *)

RemoveNext ==
    \/ AddListener \/ AddConnection \/ QueueShort \/ Serve \/ RemoveConnection
    \/ PeerListen \/ PeerConnect \/ PeerReset

SpecRemove == ConnInit /\ [][RemoveNext]_vars

\* C35 (remove_connection): after remove_connection(addr, port) no Stream
\* with that remote location is registered or on the retry list, and each
\* such Stream that was registered has status closed, whether it was
\* connected or waiting for a retry; every other Stream, its status, its
\* queues and its place in the two lists are unchanged, and no error
\* escapes.
C35_RemoveConnection ==
    [][\A loc \in RemoteLocations \cup PeerLocations :
          RemoveConnectionAt(loc) =>
              /\ exc' = ""
              /\ streams' = SelectSeq(streams,
                                LAMBDA id : st[id].remote_location # loc)
              /\ connecting' = SelectSeq(connecting,
                                LAMBDA id : st[id].remote_location # loc)
              /\ \A id \in Ids :
                    IF st[id].remote_location = loc /\ InList(streams, id)
                    THEN /\ st'[id].status = "closed"
                         /\ ~st'[id].sock
                         /\ st'[id].remote_location = loc
                    ELSE st'[id] = st[id] /\ net'[id] = net[id]]_vars

\* a connection that had written and one that was waiting for a retry have
\* been removed, while another Stream is registered and has its socket
C35_Witness ==
    /\ exc = ""
    /\ \E a, b, c \in Ids :
        /\ st[a].type = "connect" /\ ~InList(streams, a) /\ hist.wrote[a] > 0
        /\ st[a].status = "closed" /\ ~InList(connecting, a)
        /\ st[b].type = "connect" /\ ~InList(streams, b)
        /\ st[b].errno = "ECONNREFUSED" /\ hist.wrote[b] = 0
        /\ st[b].status = "closed" /\ ~InList(connecting, b)
        /\ InList(streams, c) /\ st[c].sock

-----------------------------------------------------------------------------
(* The accept specification: the program listens and serves while peers
   connect, send frames and close, before the program has accepted their
   connection or after it. *)

\* a peer whose connection waits in the backlog sends a frame
PeerEarlySend ==
    /\ hist.nsent < MaxPeerFrames
    /\ \E id \in Ids, p \in PeerPayloads :
        /\ st[id].type = "listen" /\ st[id].sock
        /\ \E i \in 1..Len(net[id].early) :
            /\ net[id].early[i].peer = "open"
            /\ net' = [net EXCEPT ![id].early[i].sent = Append(@, p)]
        /\ hist' = [hist EXCEPT !.nsent = @ + 1]
    /\ UNCHANGED <<streams, connecting, st, reach, exc>>
    /\ UNCHANGED <<codecVars, snapVars, aggVars, roleVars>>

\* a peer whose connection waits in the backlog closes it
PeerEarlyClose ==
    /\ \E id \in Ids :
        /\ st[id].type = "listen" /\ st[id].sock
        /\ \E i \in 1..Len(net[id].early) :
            /\ net[id].early[i].peer = "open"
            /\ net' = [net EXCEPT ![id].early[i].peer = "fin"]
    /\ UNCHANGED <<streams, connecting, st, reach, hist, exc>>
    /\ UNCHANGED <<codecVars, snapVars, aggVars, roleVars>>

AcceptNext ==
    \/ AddListener \/ QueueShort \/ Serve
    \/ PeerConnect \/ PeerEarlySend \/ PeerEarlyClose \/ PeerClose

SpecAccept == ConnInit /\ [][AcceptNext]_vars

\* C36 (accept ordering): a Stream accepted during a serve() call is
\* registered and has had handle_accept when the call is over, and nothing
\* else: it has its socket and the status accepted, nothing was read from
\* it or written to it and it has had neither handle_recv nor handle_close,
\* although its peer may have sent or closed already; so handle_accept comes
\* before every handle_recv and handle_close for it, which a later call
\* makes.  Every accept-role Stream has had handle_accept, once.
C36_AcceptOrdering ==
    [][/\ \A id \in 1..Len(st') :
             st'[id].type = "accept" =>
                 Cardinality({i \in 1..Len(hist'.accepts) : hist'.accepts[i] = id}) = 1
       /\ \A id \in (Len(st) + 1)..Len(st') :
             st'[id].type = "accept" =>
                 /\ InList(streams', id)
                 /\ st'[id].status = "accepted" /\ st'[id].sock
                 /\ st'[id].inbox = DecoderInit
                 /\ hist'.recv[id] = <<>>
                 /\ net'[id].rx = Concat([i \in 1..Len(hist'.sent[id]) |->
                                              Frame(hist'.sent[id][i])])
                 /\ hist'.wrote[id] = 0
                 /\ ~InList(connecting', id)]_vars

\* a Stream was accepted by the last serve() call after its peer had sent a
\* frame and closed: the frame is unread and the Stream is open
C36_Witness ==
    /\ exc = ""
    /\ \E id \in Ids :
        /\ st[id].type = "accept" /\ st[id].status = "accepted"
        /\ InList(streams, id) /\ InList(hist.accepts, id)
        /\ net[id].rx # <<>> /\ net[id].peer = "fin"
        /\ hist.recv[id] = <<>>

-----------------------------------------------------------------------------
(* The log order specification: the batches the Aggregator handles are
   those Server.serve gets from Stream.get for the frames that arrived on a
   Stream, and the Aggregator logs between the batches. *)

\* Stream.get(): self.inbox.get()[::-1]
get_reversed(decoded) == Reverse(decoded)

\* the frames of arrival have arrived on a Stream, in this order, and
\* Server.serve hands the batch to handle_recv
OrderRecv ==
    /\ agg.exc = ""
    /\ loophist.nrecv < MaxRecv
    /\ \E arrival \in LogBatches :
        /\ agg' = agg_handle_recv(agg, get_reversed(arrival), clock).a
        /\ loophist' = [loophist EXCEPT !.got = @ \o SelectSeq(arrival, IsData),
                                        !.nrecv = @ + 1]
    /\ UNCHANGED <<clock, agghist, pc, logfile, pubsubVars, codecVars, serverVars,
                   snapVars>>

OrderNext == OrderRecv \/ LogDump

SpecOrder == LogInit /\ [][OrderNext]_vars

\* C39 (log order): the data frames in the log file are in the order in
\* which they arrived on the Stream, within one batch and across the batches
\* received between two dump() calls: the file is always a prefix of the
\* data frames received.
C39_LogOrder == agg.exc = "" => IsPrefix(logfile, loophist.got)

-----------------------------------------------------------------------------
(* Claims about the retry list, checked under SpecRemove *)

\* C40 (retry-list invariant): when add_connection, remove_connection or
\* serve has returned, the retry list holds no Stream twice, every Stream on
\* it is registered, has the role connect and the status closed, and every
\* registered connect-role Stream with status closed is on it.
C40_RetryList ==
    exc = "" =>
        /\ \A i, j \in 1..Len(connecting) : connecting[i] = connecting[j] => i = j
        /\ \A i \in 1..Len(connecting) :
              /\ InList(streams, connecting[i])
              /\ st[connecting[i]].type = "connect"
              /\ st[connecting[i]].status = "closed"
        /\ \A id \in Ids :
              (InList(streams, id) /\ st[id].type = "connect"
                   /\ st[id].status = "closed") => InList(connecting, id)

\* a Stream whose connection was reset is on the retry list, and another one
\* has left the list when its connect() succeeded
C40_Witness ==
    /\ exc = ""
    /\ \E a, b \in Ids :
        /\ InList(connecting, a) /\ st[a].errno = "ECONNRESET"
        /\ ~InList(connecting, b) /\ InList(streams, b) /\ hist.again[b]

=============================================================================
